---- MODULE Spec2Model ----
(***************************************************************************)
(* Model of tangelo.dlpno.convergence.ConvergenceMonitor and of the        *)
(* values it computes with.                                                *)
(*                                                                         *)
(* Energies, residuals and tolerances are Python floats, i.e. IEEE-754     *)
(* binary64 values, or None.  A value is a record                          *)
(*     [kind, neg, mant, exp]                                              *)
(* with kind in {"none", "nan", "inf", "fin"}; a finite value stands for   *)
(* (-1)^neg * mant * 2^exp, where mant is a natural number kept as a       *)
(* little-endian sequence of 15-bit limbs (TLC integers are 32 bits wide)  *)
(* and is odd, or empty with exp = 0 for zero.                             *)
(***************************************************************************)
EXTENDS Integers, Sequences, FiniteSets, TLC

----------------------------------------------------------------------------
(* Natural numbers of arbitrary size: little-endian limbs, no high zero.   *)

Base == 2^15

RECURSIVE BnNorm(_)
BnNorm(a) ==
    IF a = <<>> THEN a
    ELSE IF a[Len(a)] = 0 THEN BnNorm(SubSeq(a, 1, Len(a) - 1)) ELSE a

BnLimb(a, i) == IF i >= 1 /\ i <= Len(a) THEN a[i] ELSE 0

RECURSIVE BnCmpFrom(_, _, _)
BnCmpFrom(a, b, i) ==
    IF i = 0 THEN 0
    ELSE IF a[i] < b[i] THEN -1
    ELSE IF a[i] > b[i] THEN 1
    ELSE BnCmpFrom(a, b, i - 1)

BnCmp(a, b) ==
    IF Len(a) < Len(b) THEN -1
    ELSE IF Len(a) > Len(b) THEN 1
    ELSE BnCmpFrom(a, b, Len(a))

RECURSIVE BnAddFrom(_, _, _, _)
BnAddFrom(a, b, i, c) ==
    IF i > Len(a) /\ i > Len(b)
    THEN (IF c = 0 THEN <<>> ELSE <<c>>)
    ELSE LET s == BnLimb(a, i) + BnLimb(b, i) + c
         IN  <<s % Base>> \o BnAddFrom(a, b, i + 1, s \div Base)

BnAdd(a, b) == BnAddFrom(a, b, 1, 0)

RECURSIVE BnSubFrom(_, _, _, _)
BnSubFrom(a, b, i, br) ==
    IF i > Len(a) THEN <<>>
    ELSE LET d == a[i] - BnLimb(b, i) - br
         IN  <<IF d < 0 THEN d + Base ELSE d>>
             \o BnSubFrom(a, b, i + 1, IF d < 0 THEN 1 ELSE 0)

\* a - b, for a >= b
BnSub(a, b) == BnNorm(BnSubFrom(a, b, 1, 0))

RECURSIVE BnMulSmallFrom(_, _, _, _)
BnMulSmallFrom(a, k, i, c) ==
    IF i > Len(a)
    THEN (IF c = 0 THEN <<>> ELSE <<c>>)
    ELSE LET s == a[i] * k + c
         IN  <<s % Base>> \o BnMulSmallFrom(a, k, i + 1, s \div Base)

\* a * k, for 0 < k <= Base
BnMulSmall(a, k) == BnMulSmallFrom(a, k, 1, 0)

RECURSIVE BnZeros(_)
BnZeros(n) == IF n <= 0 THEN <<>> ELSE <<0>> \o BnZeros(n - 1)

\* a * 2^n
BnShl(a, n) ==
    IF a = <<>> THEN a
    ELSE BnZeros(n \div 15) \o BnMulSmall(a, 2^(n % 15))

RECURSIVE BnDivSmallFrom(_, _, _, _)
BnDivSmallFrom(a, k, i, r) ==
    IF i = 0 THEN [q |-> <<>>, r |-> r]
    ELSE LET cur  == r * Base + a[i]
             rest == BnDivSmallFrom(a, k, i - 1, cur % k)
         IN  [q |-> rest.q \o <<cur \div k>>, r |-> rest.r]

\* quotient and remainder of a by k, for 0 < k <= Base
BnDivSmall(a, k) ==
    LET d == BnDivSmallFrom(a, k, Len(a), 0)
    IN  [q |-> BnNorm(d.q), r |-> d.r]

\* floor(a / 2^n)
BnShr(a, n) ==
    IF n \div 15 >= Len(a) THEN <<>>
    ELSE BnDivSmall(SubSeq(a, n \div 15 + 1, Len(a)), 2^(n % 15)).q

\* bit i of a, the lowest bit being bit 0
BnBit(a, i) ==
    IF i < 0 THEN 0 ELSE (BnLimb(a, i \div 15 + 1) \div 2^(i % 15)) % 2

\* whether the n lowest bits of a are all zero
BnLowZero(a, n) ==
    /\ \A i \in 1..(n \div 15) : BnLimb(a, i) = 0
    /\ BnLimb(a, n \div 15 + 1) % 2^(n % 15) = 0

RECURSIVE BitLenSmall(_)
BitLenSmall(k) == IF k = 0 THEN 0 ELSE 1 + BitLenSmall(k \div 2)

BnBitLen(a) ==
    IF a = <<>> THEN 0 ELSE 15 * (Len(a) - 1) + BitLenSmall(a[Len(a)])

\* number of trailing zero bits of a # 0
RECURSIVE BnTrailingZeros(_, _)
BnTrailingZeros(a, i) == IF BnBit(a, i) = 1 THEN i ELSE BnTrailingZeros(a, i + 1)

\* the largest d < Base with b * d <= cur, found bit by bit from bit k down
RECURSIVE BnDigit(_, _, _, _)
BnDigit(cur, b, k, d) ==
    IF k < 0 THEN d
    ELSE IF BnCmp(BnMulSmall(b, d + 2^k), cur) <= 0
         THEN BnDigit(cur, b, k - 1, d + 2^k)
         ELSE BnDigit(cur, b, k - 1, d)

\* long division by b # 0, one limb of a at a time from limb i down
RECURSIVE BnDivModFrom(_, _, _, _)
BnDivModFrom(a, b, i, r) ==
    IF i = 0 THEN [q |-> <<>>, r |-> r]
    ELSE LET cur  == BnNorm(<<a[i]>> \o r)
             d    == BnDigit(cur, b, 14, 0)
             rest == BnDivModFrom(a, b, i - 1,
                                  IF d = 0 THEN cur ELSE BnSub(cur, BnMulSmall(b, d)))
         IN  [q |-> rest.q \o <<d>>, r |-> rest.r]

BnDivMod(a, b) ==
    IF Len(b) = 1
    THEN LET d == BnDivSmall(a, b[1]) IN [q |-> d.q, r |-> IF d.r = 0 THEN <<>> ELSE <<d.r>>]
    ELSE LET d == BnDivModFrom(a, b, Len(a), <<>>) IN [q |-> BnNorm(d.q), r |-> d.r]

----------------------------------------------------------------------------
(* Python floats (IEEE-754 binary64) and None.                             *)

Precision == 53
MinExp == -1074
OverflowBits == 1024

None == [kind |-> "none", neg |-> FALSE, mant |-> <<>>, exp |-> 0]
NaN == [kind |-> "nan", neg |-> FALSE, mant |-> <<>>, exp |-> 0]
Inf(neg) == [kind |-> "inf", neg |-> neg, mant |-> <<>>, exp |-> 0]
Fin(neg, mant, exp) == [kind |-> "fin", neg |-> neg, mant |-> mant, exp |-> exp]

Min(a, b) == IF a <= b THEN a ELSE b
Max(a, b) == IF a >= b THEN a ELSE b

\* the finite value (-1)^neg * M * 2^E, M # 0 exactly representable
DblReduce(neg, M, E) ==
    IF M = <<>> THEN Fin(neg, <<>>, 0)
    ELSE LET t == BnTrailingZeros(M, 0) IN Fin(neg, BnShr(M, t), E + t)

\* overflow to infinity, otherwise the representable value
DblFinish(neg, M, E) ==
    IF BnBitLen(M) + E > OverflowBits THEN Inf(neg) ELSE DblReduce(neg, M, E)

\* (-1)^neg * M * 2^E rounded to the nearest binary64, ties to even
DblRound(neg, M, E) ==
    IF M = <<>> THEN Fin(neg, <<>>, 0)
    ELSE LET L    == BnBitLen(M)
             p    == Min(Precision, L + E - MinExp)
             drop == L - p
         IN  IF drop <= 0 THEN DblFinish(neg, M, E)
             ELSE LET q       == BnShr(M, drop)
                      half    == BnBit(M, drop - 1) = 1
                      restZ   == BnLowZero(M, drop - 1)
                      roundUp == half /\ (~restZ \/ BnBit(q, 0) = 1)
                  IN  DblFinish(neg, IF roundUp THEN BnAdd(q, <<1>>) ELSE q, E + drop)

\* x + y for finite x and y given as sign, mantissa and exponent
DblAddSigned(xn, xm, xe, yn, ym, ye) ==
    LET E == Min(xe, ye)
        X == BnShl(xm, xe - E)
        Y == BnShl(ym, ye - E)
        c == BnCmp(X, Y)
    IN  IF xn = yn THEN DblRound(xn, BnAdd(X, Y), E)
        ELSE IF c = 0 THEN Fin(FALSE, <<>>, 0)
        ELSE IF c > 0 THEN DblRound(xn, BnSub(X, Y), E)
        ELSE DblRound(yn, BnSub(Y, X), E)

\* float.__sub__ on finite operands
DblSub(x, y) == DblAddSigned(x.neg, x.mant, x.exp, ~y.neg, y.mant, y.exp)

\* abs()
DblAbs(x) == [x EXCEPT !.neg = FALSE]

\* comparison of magnitudes of values that are not NaN: -1, 0 or 1
DblMagCmp(x, y) ==
    IF x.kind = "inf" THEN (IF y.kind = "inf" THEN 0 ELSE 1)
    ELSE IF y.kind = "inf" THEN -1
    ELSE IF x.mant = <<>> THEN (IF y.mant = <<>> THEN 0 ELSE -1)
    ELSE IF y.mant = <<>> THEN 1
    ELSE LET tx == BnBitLen(x.mant) + x.exp
             ty == BnBitLen(y.mant) + y.exp
             E  == Min(x.exp, y.exp)
         IN  IF tx < ty THEN -1
             ELSE IF tx > ty THEN 1
             ELSE BnCmp(BnShl(x.mant, x.exp - E), BnShl(y.mant, y.exp - E))

IsZero(x) == x.kind = "fin" /\ x.mant = <<>>

\* float.__lt__: false as soon as an operand is NaN
DblLess(x, y) ==
    IF x.kind = "nan" \/ y.kind = "nan" THEN FALSE
    ELSE IF IsZero(x) /\ IsZero(y) THEN FALSE
    ELSE IF x.neg # y.neg THEN x.neg
    ELSE IF x.neg THEN DblMagCmp(y, x) < 0
    ELSE DblMagCmp(x, y) < 0

\* float.__gt__
DblGreater(x, y) == DblLess(y, x)

\* (-1)^neg * (N / D) * 2^E correctly rounded, for natural numbers N, D # 0:
\* the quotient is taken to at least 56 bits and a sticky bit records a
\* remainder
DblQuot(neg, N, D, E) ==
    IF N = <<>> THEN Fin(neg, <<>>, 0)
    ELSE LET s == Max(0, 56 + BnBitLen(D) - BnBitLen(N))
             d == BnDivMod(BnShl(N, s), D)
             M == BnAdd(BnAdd(d.q, d.q), IF d.r = <<>> THEN <<>> ELSE <<1>>)
         IN  DblRound(neg, M, E - s - 1)

\* float.__truediv__ for a finite or infinite x and a finite y # 0
DblDiv(x, y) ==
    IF x.kind = "inf" THEN Inf(x.neg # y.neg)
    ELSE DblQuot(x.neg # y.neg, x.mant, y.mant, x.exp - y.exp)

RECURSIVE BnFromInt(_)
BnFromInt(n) == IF n = 0 THEN <<>> ELSE <<n % Base>> \o BnFromInt(n \div Base)

RECURSIVE BnPow10(_)
BnPow10(k) == IF k = 0 THEN <<1>> ELSE BnMulSmall(BnPow10(k - 1), 10)

RECURSIVE BnMulPow10(_, _)
BnMulPow10(a, k) == IF k = 0 THEN a ELSE BnMulPow10(BnMulSmall(a, 10), k - 1)

\* the float a decimal literal denotes: (-1)^neg * n * 10^e10, correctly
\* rounded (n a natural number below 2^31)
DblFromDecimal(neg, n, e10) ==
    IF e10 >= 0 THEN DblRound(neg, BnMulPow10(BnFromInt(n), e10), 0)
    ELSE DblQuot(neg, BnFromInt(n), BnPow10(-e10), 0)

\* math.isfinite on a float
isfinite(x) == x.kind = "fin"

----------------------------------------------------------------------------
(* ConvergenceMonitor.                                                     *)
(*                                                                         *)
(* ConvergenceRecord objects live in heap, in creation order; a list holds *)
(* references (positions in heap).  _records is the content of the         *)
(* monitor's own list object.  held is the list the caller got from the    *)
(* records property: either a list object of its own (items) or the very   *)
(* list object of the monitor (alias).                                     *)

VARIABLES
    criteria,      \* self.criteria
    heap,          \* the ConvergenceRecord objects created so far
    _records,      \* self._records
    _converged,    \* self._converged
    ret,           \* reference returned by the last update (0: none yet)
    raised,        \* whether the last update raised an exception
    held,          \* the caller's list, obtained from the records property
    calls,         \* history: the arguments of the update calls made
    pristine,      \* history: the monitor as it would be had no caller
                   \* ever assigned to a field of a record
    mo_energies,   \* the orbital energies at hand
    mo_integrals,  \* the two-electron integrals at hand
    reference_wavefunction,  \* the attributes of the reference object
    outcome,       \* the last coupling or screening call and what it gave
    scf_energy,          \* EnergyAssembler: self.scf_energy
    mp2_correlation,     \* self.mp2_correlation
    ccsd_correlation,    \* self.ccsd_correlation
    triples_correction,  \* self.triples_correction
    pipeline_flags,      \* self.pipeline_flags
    answer,        \* the last energy request made of the assembler and its end
    threads,       \* the update calls in progress: position and local variables
    overlapped     \* history: some update call began while another was in progress

\* the state of the convergence monitor and of its caller
mvars == <<criteria, heap, _records, _converged, ret, raised, held, calls, pristine>>

\* the state of the pair screening
cvars == <<mo_energies, mo_integrals, reference_wavefunction, outcome>>

\* the state of the energy assembler
avars == <<scf_energy, mp2_correlation, ccsd_correlation, triples_correction,
           pipeline_flags, answer>>

\* the update calls in progress on the monitor
tvars == <<threads, overlapped>>

vars == <<mvars, cvars, avars, tvars>>

\* no orbital data loaded, no coupling or screening call made
NoScreening ==
    /\ mo_energies = [isarray |-> FALSE, vals |-> <<>>]
    /\ mo_integrals = [isarray |-> FALSE, dim |-> 0, gen |-> "none", tab |-> <<>>]
    /\ reference_wavefunction = [attrs |-> {}, mo_occ |-> <<>>, n_electrons |-> 0]
    /\ outcome = [call |-> "none"]

\* the stages of the pipeline
Stages ==
    {"localization_complete", "pairs_detected", "pno_constructed", "mp2_converged",
     "ccsd_converged", "triples_computed"}

\* EnergyAssembler.__init__(scf_energy)
EnergyAssembler(energy) ==
    /\ scf_energy = energy
    /\ mp2_correlation = None
    /\ ccsd_correlation = None
    /\ triples_correction = None
    /\ pipeline_flags = [stage \in Stages |-> FALSE]
    /\ answer = [call |-> "none"]

\* an assembler constructed without an energy and left alone
NoAssembler == EnergyAssembler(None)

\* the largest number of threads calling update
MaxThreads == 2
Threads == 1..MaxThreads

\* a thread outside update
Outside ==
    [pc |-> "outside", iteration |-> 0, energy |-> None, residual_norm |-> None,
     converged |-> FALSE, record |-> 0]

\* no update call is in progress and none has overlapped another
NoThreads ==
    /\ threads = [t \in Threads |-> Outside]
    /\ overlapped = FALSE

MaxLen == 3
MaxHeld == 2

\* float literals
ZERO_GUARD == DblFromDecimal(FALSE, 1, -12)
Zero == Fin(FALSE, <<>>, 0)
Tiny == Fin(FALSE, <<1>>, -40)
One == Fin(FALSE, <<1>>, 0)
Two == Fin(FALSE, <<1>>, 1)
Eight == DblFromDecimal(FALSE, 8, 0)
Nine == DblFromDecimal(FALSE, 9, 0)
Ten == DblFromDecimal(FALSE, 10, 0)
Eighth == DblFromDecimal(FALSE, 125, -3)
NegEight == DblFromDecimal(TRUE, 8, 0)
NegNine == DblFromDecimal(TRUE, 9, 0)

ConvergenceCriteria(abs_tol, rel_tol, max_iterations) ==
    [energy_abs_tol |-> abs_tol, energy_rel_tol |-> rel_tol,
     max_iterations |-> max_iterations]

\* mutant: energy and residual norm change places
ConvergenceRecord_swapped(iteration, energy, residual_norm, converged) ==
    [iteration |-> iteration, energy |-> residual_norm,
     residual_norm |-> energy, converged |-> converged]

ConvergenceRecord(iteration, energy, residual_norm, converged) ==
    [iteration |-> iteration, energy |-> energy,
     residual_norm |-> residual_norm, converged |-> converged]

\* max_iterations: int | None
NoLimit == [set |-> FALSE, n |-> 0]
Limit(n) == [set |-> TRUE, n |-> n]

\* the records a list refers to
Deref(h, l) == [k \in 1..Len(l) |-> h[l[k]]]

\* "x is not None"
is_not_None(x) == x.kind # "none"

\* "x is not None and math.isfinite(x)": math.isfinite(None) raises
\* TypeError, and Python's "and" does not evaluate it when x is None
defined_and_finite(x) == is_not_None(x) /\ isfinite(x)

\* mutant: math.isfinite is called without the None test
finite_test_raises_unguarded(x) == x.kind = "none"

\* whether "x is not None and math.isfinite(x)" raises TypeError
finite_test_raises(x) == is_not_None(x) /\ x.kind = "none"

\* mutant: the relative criterion is met at equality
energy_converged_rel_le(crit, prev_energy, energy) ==
    IF defined_and_finite(energy) /\ defined_and_finite(prev_energy)
    THEN LET energy_diff == DblAbs(DblSub(energy, prev_energy))
             abs_tol_met == DblLess(energy_diff, crit.energy_abs_tol)
             rel_tol_met ==
                 IF DblGreater(DblAbs(prev_energy), ZERO_GUARD)
                 THEN ~DblLess(crit.energy_rel_tol,
                               DblDiv(energy_diff, DblAbs(prev_energy)))
                 ELSE abs_tol_met
         IN  abs_tol_met /\ rel_tol_met
    ELSE FALSE

\* energy_converged of update, given the previous record's energy
energy_converged(crit, prev_energy, energy) ==
    IF defined_and_finite(energy)
    THEN IF defined_and_finite(prev_energy)
         THEN LET energy_diff == DblAbs(DblSub(energy, prev_energy))
                  abs_tol_met == DblLess(energy_diff, crit.energy_abs_tol)
                  rel_tol_met ==
                      IF DblGreater(DblAbs(prev_energy), ZERO_GUARD)
                      THEN DblLess(DblDiv(energy_diff, DblAbs(prev_energy)),
                                   crit.energy_rel_tol)
                      ELSE abs_tol_met
              IN  abs_tol_met /\ rel_tol_met
         ELSE FALSE
    ELSE FALSE

\* mutant: the residual is compared with the relative tolerance
residual_converged_rel(crit, residual_norm) ==
    IF defined_and_finite(residual_norm)
    THEN DblLess(residual_norm, crit.energy_rel_tol)
    ELSE FALSE

\* residual_converged of update
residual_converged(crit, residual_norm) ==
    IF defined_and_finite(residual_norm)
    THEN DblLess(residual_norm, crit.energy_abs_tol)
    ELSE FALSE

\* mutant: with no record yet, the previous energy is taken to be 0.0
update_converged_default_prev(crit, log, iteration, energy, residual_norm) ==
    IF iteration > 0
    THEN LET prev_energy == IF Len(log) > 0 THEN log[Len(log)].energy ELSE Zero
         IN  /\ energy_converged(crit, prev_energy, energy)
             /\ residual_converged(crit, residual_norm)
    ELSE FALSE

\* the converged flag update computes; log is the monitor's list of records
update_converged(crit, log, iteration, energy, residual_norm) ==
    IF iteration > 0 /\ Len(log) > 0
    THEN LET prev_record == log[Len(log)]
         IN  /\ energy_converged(crit, prev_record.energy, energy)
             /\ residual_converged(crit, residual_norm)
    ELSE FALSE

\* whether update raises instead of returning
update_raises(crit, log, iteration, energy, residual_norm) ==
    /\ iteration > 0 /\ Len(log) > 0
    /\ \/ finite_test_raises(energy)
       \/ defined_and_finite(energy) /\ finite_test_raises(log[Len(log)].energy)
       \/ finite_test_raises(residual_norm)

\* ConvergenceMonitor.__init__
Init ==
    /\ criteria \in {ConvergenceCriteria(Two, Eighth, m) : m \in {NoLimit, Limit(1)}}
    /\ heap = <<>>
    /\ _records = <<>>
    /\ _converged = FALSE
    /\ ret = 0
    /\ raised = FALSE
    /\ held = [has |-> FALSE, alias |-> FALSE, items |-> <<>>]
    /\ calls = <<>>
    /\ pristine = [log |-> <<>>, converged |-> FALSE]
    /\ NoScreening
    /\ NoAssembler
    /\ NoThreads

\* mutant: the flag is overwritten by each update's own result
next_converged_reset(flag, converged) == converged

\* "if converged: self._converged = True"
next_converged(flag, converged) == IF converged THEN TRUE ELSE flag

\* the same call on the monitor no caller has tampered with
PristineUpdate(iteration, energy, residual_norm) ==
    LET c == update_converged(criteria, pristine.log, iteration, energy, residual_norm)
    IN  IF update_raises(criteria, pristine.log, iteration, energy, residual_norm)
        THEN pristine
        ELSE [log |-> Append(pristine.log,
                             ConvergenceRecord(iteration, energy, residual_norm, c)),
              converged |-> next_converged(pristine.converged, c)]

\* update refusing to record once max_iterations records are logged
update_capped(iteration, energy, residual_norm) ==
    LET log == Deref(heap, _records)
        converged == update_converged(criteria, log, iteration, energy, residual_norm)
        record == ConvergenceRecord(iteration, energy, residual_norm, converged)
        full == criteria.max_iterations.set /\ Len(_records) >= criteria.max_iterations.n
    IN  /\ IF full \/ update_raises(criteria, log, iteration, energy, residual_norm)
           THEN /\ raised' = TRUE
                /\ UNCHANGED <<heap, _records, _converged, ret>>
           ELSE /\ heap' = Append(heap, record)
                /\ _records' = Append(_records, Len(heap) + 1)
                /\ _converged' = next_converged(_converged, converged)
                /\ ret' = Len(heap) + 1
                /\ raised' = FALSE
        /\ calls' = Append(calls, <<iteration, energy, residual_norm>>)
        /\ pristine' = PristineUpdate(iteration, energy, residual_norm)
        /\ UNCHANGED <<criteria, held, cvars, avars, tvars>>

\* ConvergenceMonitor.update
update(iteration, energy, residual_norm) ==
    LET log == Deref(heap, _records)
        converged == update_converged(criteria, log, iteration, energy, residual_norm)
        record == ConvergenceRecord(iteration, energy, residual_norm, converged)
    IN  /\ IF update_raises(criteria, log, iteration, energy, residual_norm)
           THEN /\ raised' = TRUE
                /\ UNCHANGED <<heap, _records, _converged, ret>>
           ELSE /\ heap' = Append(heap, record)
                /\ _records' = Append(_records, Len(heap) + 1)
                /\ _converged' = next_converged(_converged, converged)
                /\ ret' = Len(heap) + 1
                /\ raised' = FALSE
        /\ calls' = Append(calls, <<iteration, energy, residual_norm>>)
        /\ pristine' = PristineUpdate(iteration, energy, residual_norm)
        /\ UNCHANGED <<criteria, held, cvars, avars, tvars>>

\* ConvergenceMonitor.is_converged
is_converged == _converged

Labels == {-1, 0, 1}
Energies == {None, NaN, Inf(FALSE), Zero, Tiny, Eight, Nine, Ten}
Residuals == {None, NaN, Inf(FALSE), One, Two}

\* the update calls of the solver loop
Inputs ==
    ({1} \X Energies \X {One})
    \cup ({1} \X {Nine} \X Residuals)
    \cup ({-1, 0} \X {Eight, Nine} \X {One})
    \cup ({1} \X {NegEight, NegNine} \X {One})
    \cup ({0} \X {None} \X {NaN})

Update ==
    \E in \in Inputs :
        /\ Len(calls) < MaxLen
        /\ update(in[1], in[2], in[3])

Next == Update

Spec == Init /\ [][Next]_vars

----------------------------------------------------------------------------
(* A caller that keeps the list the records property returned and changes  *)
(* it, or assigns to fields of the records in it.                          *)

\* mutant: the property returns the monitor's own list object
records_alias == [has |-> TRUE, alias |-> TRUE, items |-> <<>>]

\* ConvergenceMonitor.records: self._records.copy() is a new list object
\* holding the same references
records == [has |-> TRUE, alias |-> FALSE, items |-> _records]

GetRecords ==
    /\ held' = records
    /\ UNCHANGED <<criteria, heap, _records, _converged, ret, raised, calls, pristine, cvars, avars, tvars>>

\* the content of the caller's list, and a change of it
HeldItems == IF held.alias THEN _records ELSE held.items

SetHeld(new) ==
    /\ IF held.alias
       THEN _records' = new /\ UNCHANGED held
       ELSE held' = [held EXCEPT !.items = new] /\ UNCHANGED _records
    /\ UNCHANGED <<criteria, heap, _converged, ret, raised, calls, pristine, cvars, avars, tvars>>

RECURSIVE Reverse(_)
Reverse(l) == IF l = <<>> THEN l ELSE Append(Reverse(Tail(l)), Head(l))

\* list.append, list.pop(k), list.reverse, list.clear on the returned list
CallerAppend ==
    /\ held.has
    /\ Len(HeldItems) < MaxHeld
    /\ \E r \in 1..Len(heap) : SetHeld(Append(HeldItems, r))

CallerPop ==
    /\ held.has
    /\ \E k \in 1..Len(HeldItems) :
           SetHeld(SubSeq(HeldItems, 1, k - 1) \o SubSeq(HeldItems, k + 1, Len(HeldItems)))

CallerReverse ==
    /\ held.has
    /\ Len(HeldItems) >= 2
    /\ SetHeld(Reverse(HeldItems))

CallerClear ==
    /\ held.has
    /\ HeldItems # <<>>
    /\ SetHeld(<<>>)

\* "record.energy = v" and "record.converged = b" on a record of the
\* returned list: ConvergenceRecord is a plain dataclass, its fields are
\* assignable, and the list copy shares the record objects
CallerAssign ==
    /\ held.has
    /\ \E k \in 1..Len(HeldItems) :
           \/ \E v \in {Zero} :
                  heap' = [heap EXCEPT ![HeldItems[k]].energy = v]
           \/ \E b \in BOOLEAN :
                  heap' = [heap EXCEPT ![HeldItems[k]].converged = b]
    /\ UNCHANGED <<criteria, _records, _converged, ret, raised, held, calls, pristine, cvars, avars, tvars>>

CallerInputs == {<<1, Nine, One>>, <<0, Eight, Two>>}

UpdateHeld ==
    \E in \in CallerInputs :
        /\ Len(calls) < MaxHeld
        /\ update(in[1], in[2], in[3])

NextCaller ==
    \/ UpdateHeld
    \/ GetRecords
    \/ CallerAppend
    \/ CallerPop
    \/ CallerReverse
    \/ CallerClear
    \/ CallerAssign

SpecCaller == Init /\ [][NextCaller]_vars

----------------------------------------------------------------------------
(* The scenario of scripts/verify_dlpno_convergence.py, check_basic_flow:  *)
(* criteria (1e-6, 5e-7, 20) and the three updates of the script, together *)
(* with a NaN energy and an infinite residual, in any order.               *)

ScenarioCriteria ==
    ConvergenceCriteria(DblFromDecimal(FALSE, 1, -6), DblFromDecimal(FALSE, 5, -7),
                        Limit(20))

ScenarioCalls ==
    << <<0, DblFromDecimal(TRUE, 75, 0), DblFromDecimal(FALSE, 1, -2)>>,
       <<1, DblFromDecimal(TRUE, 75123456, -6), DblFromDecimal(FALSE, 2, -6)>>,
       <<2, DblFromDecimal(TRUE, 75123457, -6), DblFromDecimal(FALSE, 5, -7)>> >>

ScenarioInputs ==
    {ScenarioCalls[k] : k \in 1..3}
    \cup {<<1, NaN, DblFromDecimal(FALSE, 1, -4)>>,
          <<2, DblFromDecimal(TRUE, 75123457, -6), Inf(FALSE)>>}

InitScenario ==
    /\ criteria = ScenarioCriteria
    /\ heap = <<>>
    /\ _records = <<>>
    /\ _converged = FALSE
    /\ ret = 0
    /\ raised = FALSE
    /\ held = [has |-> FALSE, alias |-> FALSE, items |-> <<>>]
    /\ calls = <<>>
    /\ pristine = [log |-> <<>>, converged |-> FALSE]
    /\ NoScreening
    /\ NoAssembler
    /\ NoThreads

UpdateScenario ==
    \E in \in ScenarioInputs :
        /\ Len(calls) < MaxLen
        /\ update(in[1], in[2], in[3])

NextScenario == UpdateScenario

SpecScenario == InitScenario /\ [][NextScenario]_vars

----------------------------------------------------------------------------
(* Properties.                                                             *)

\* the log: the records of the monitor's list, in list order
Log == Deref(heap, _records)

\* the four convergence criteria of a record against its predecessor
CriteriaHold(crit, prev, cur) ==
    /\ cur.energy.kind = "fin"
    /\ prev.energy.kind = "fin"
    /\ LET diff == DblAbs(DblSub(cur.energy, prev.energy))
       IN  /\ DblLess(diff, crit.energy_abs_tol)
           /\ DblGreater(DblAbs(prev.energy), ZERO_GUARD)
                  => DblLess(DblDiv(diff, DblAbs(prev.energy)), crit.energy_rel_tol)
    /\ cur.residual_norm.kind = "fin"
    /\ DblLess(cur.residual_norm, crit.energy_abs_tol)

\* C1: once is_converged() is true it is true after every later update,
\* whatever that update's own record says.
C1_Sticky == [][is_converged => is_converged']_vars

\* C1 witness: the monitor is still converged after a later update whose
\* energy is NaN or infinite and whose record is not converged.
C1_Witness ==
    /\ Len(Log) = 3
    /\ Log[2].converged
    /\ Log[3].energy.kind \in {"nan", "inf"}
    /\ ~Log[3].converged
    /\ is_converged

\* C2: on every update that is not the first, whatever its iteration label,
\* the record is converged whenever the four criteria hold against the last
\* record of the log.
C2_AnyLabelConverges ==
    \A k \in 2..Len(Log) :
        CriteriaHold(criteria, Log[k - 1], Log[k]) => Log[k].converged

\* C3: a record is converged only if it is not the first and the four
\* criteria hold against the record before it.
C3_ConvergedOnlyIfCriteria ==
    \A k \in 1..Len(Log) :
        Log[k].converged => k >= 2 /\ CriteriaHold(criteria, Log[k - 1], Log[k])

\* C3 witness: a converged record whose predecessor's energy is above the
\* 1e-12 guard, so that the relative criterion applied.
C3_Witness ==
    \E k \in 2..Len(Log) :
        /\ Log[k].converged
        /\ DblGreater(DblAbs(Log[k - 1].energy), ZERO_GUARD)

\* C4: the first update on a fresh monitor returns a record that is not
\* converged and leaves is_converged() false, whatever its arguments.
C4_FirstNeverConverged ==
    Len(Log) >= 1 =>
        /\ ~Log[1].converged
        /\ Len(Log) = 1 => ~is_converged /\ ret = 1 /\ ~heap[ret].converged

\* C4 witness: a first update with a positive label, an energy within the
\* tolerance of zero and a residual below the tolerance.
C4_Witness ==
    /\ Len(Log) = 1
    /\ Log[1].iteration = 1
    /\ Log[1].energy = Tiny
    /\ Log[1].residual_norm = One

\* C5: is_converged() is true exactly when some record of the log is
\* converged; a fresh monitor reports false.
C5_FlagIffSomeRecord ==
    is_converged <=> \E k \in 1..Len(Log) : Log[k].converged

\* C5 witness: exactly one record of the log is converged, it is not the
\* last one, and the monitor reports convergence.
C5_Witness ==
    /\ is_converged
    /\ Cardinality({k \in 1..Len(Log) : Log[k].converged}) = 1
    /\ ~Log[Len(Log)].converged

\* C6: every update appends exactly one record: the log has one record per
\* call, in call order, each holding the arguments of its call; the record
\* returned is the last of the log; earlier records are never removed,
\* reordered or changed.
C6_LogMatchesCalls ==
    /\ ~raised
    /\ Len(Log) = Len(calls)
    /\ \A k \in 1..Len(Log) :
           /\ Log[k].iteration = calls[k][1]
           /\ Log[k].energy = calls[k][2]
           /\ Log[k].residual_norm = calls[k][3]
    /\ Len(Log) > 0 => ret = _records[Len(_records)]

C6_EarlierRecordsKept ==
    /\ Len(Log') >= Len(Log)
    /\ \A k \in 1..Len(Log) : Log'[k] = Log[k]

C6_AppendOnlyLog == []C6_LogMatchesCalls /\ [][C6_EarlierRecordsKept]_vars

\* C6 witness: three updates, the second with a lower label than the first,
\* the third with a non-finite energy, are all in the log.
C6_Witness ==
    /\ Len(Log) = 3
    /\ Log[2].iteration < Log[1].iteration
    /\ Log[3].energy.kind # "fin"

\* C7: an update with a NaN, infinite or undefined energy or residual, and
\* the update that follows a record with such an energy, raises nothing,
\* appends its record as not converged and leaves is_converged() as it was.
C7_Case ==
    /\ Len(calls') = Len(calls) + 1
    /\ \/ calls'[Len(calls')][2].kind # "fin"
       \/ calls'[Len(calls')][3].kind # "fin"
       \/ Len(Log) > 0 /\ Log[Len(Log)].energy.kind # "fin"

C7_Effect ==
    /\ ~raised'
    /\ Len(Log') = Len(Log) + 1
    /\ ~Log'[Len(Log')].converged
    /\ is_converged' = is_converged

C7_NonFiniteInconclusive == [][C7_Case => C7_Effect]_vars

\* C7 witness: an update with finite arguments within tolerance directly
\* after a record with an undefined energy was recorded as not converged.
C7_Witness ==
    /\ Len(Log) >= 2
    /\ Log[Len(Log) - 1].energy = None
    /\ Log[Len(Log)].energy = Nine
    /\ Log[Len(Log)].residual_norm = One
    /\ Log[Len(Log)].iteration = 1
    /\ ~Log[Len(Log)].converged
    /\ ~raised

\* C8: a caller cannot change the monitor through what records returns:
\* after any assignment to a field of a returned record, the log and
\* is_converged() are those of a monitor nobody assigned to.
C8_NoMutationThroughRecords ==
    /\ Log = pristine.log
    /\ is_converged = pristine.converged

\* C9: records returns a copy: whatever the caller does to the returned
\* list, the monitor's list holds the records of the update calls, once
\* each, in call order, the last being the one the next update compares
\* against.
C9_CopyIsolatesLog ==
    /\ Len(heap) = Len(calls)
    /\ _records = [k \in 1..Len(heap) |-> k]

\* C9 witness: the caller emptied the list it got while the monitor holds
\* two records.
C9_Witness ==
    /\ held.has
    /\ held.items = <<>>
    /\ Len(_records) >= 2

\* C10: with criteria (1e-6, 5e-7) the updates (0, -75.0, 1e-2),
\* (1, -75.123456, 2e-6), (2, -75.123457, 5e-7) give records that are not
\* converged, not converged, converged, and is_converged() is true only
\* after the third.
C10_BasicFlow ==
    \A n \in 1..3 :
        calls = SubSeq(ScenarioCalls, 1, n) =>
            /\ Len(Log) = n
            /\ Log[n].converged = (n = 3)
            /\ is_converged = (n = 3)

\* C10 witness: the three updates of the scenario were made in order.
C10_Witness == calls = ScenarioCalls /\ Log[3].converged

----------------------------------------------------------------------------
(* numpy.float64 arithmetic on all values: NaN and the infinities          *)
(* propagate as IEEE-754 prescribes, nothing raises.                       *)

RECURSIVE BnMulFrom(_, _, _)
BnMulFrom(a, b, i) ==
    IF i > Len(b) THEN <<>>
    ELSE BnAdd(IF b[i] = 0 THEN <<>> ELSE BnMulSmall(a, b[i]),
               <<0>> \o BnMulFrom(a, b, i + 1))

\* a * b
BnMul(a, b) == IF a = <<>> \/ b = <<>> THEN <<>> ELSE BnNorm(BnMulFrom(a, b, 1))

\* -x
DblNeg(x) == IF x.kind = "nan" THEN x ELSE [x EXCEPT !.neg = ~x.neg]

\* x + y
DblAdd(x, y) ==
    IF x.kind = "nan" \/ y.kind = "nan" THEN NaN
    ELSE IF x.kind = "inf"
         THEN (IF y.kind = "inf" /\ y.neg # x.neg THEN NaN ELSE x)
    ELSE IF y.kind = "inf" THEN y
    ELSE DblAddSigned(x.neg, x.mant, x.exp, y.neg, y.mant, y.exp)

\* x - y
DblMinus(x, y) == DblAdd(x, DblNeg(y))

\* x * y
DblMul(x, y) ==
    IF x.kind = "nan" \/ y.kind = "nan" THEN NaN
    ELSE IF x.kind = "inf" \/ y.kind = "inf"
         THEN (IF IsZero(x) \/ IsZero(y) THEN NaN ELSE Inf(x.neg # y.neg))
    ELSE DblRound(x.neg # y.neg, BnMul(x.mant, y.mant), x.exp + y.exp)

\* x / y; a finite x over zero gives an infinity, 0/0 gives NaN
DblOver(x, y) ==
    IF x.kind = "nan" \/ y.kind = "nan" THEN NaN
    ELSE IF x.kind = "inf"
         THEN (IF y.kind = "inf" THEN NaN ELSE Inf(x.neg # y.neg))
    ELSE IF y.kind = "inf" THEN Fin(x.neg # y.neg, <<>>, 0)
    ELSE IF IsZero(y)
         THEN (IF IsZero(x) THEN NaN ELSE Inf(x.neg # y.neg))
    ELSE DblQuot(x.neg # y.neg, x.mant, y.mant, x.exp - y.exp)

\* x >= y: false as soon as an operand is NaN
DblGeq(x, y) ==
    IF x.kind = "nan" \/ y.kind = "nan" THEN FALSE ELSE ~DblLess(x, y)

\* x == y: false as soon as an operand is NaN, and 0.0 == -0.0
DblEq(x, y) == DblGeq(x, y) /\ DblGeq(y, x)

----------------------------------------------------------------------------
(* tangelo/dlpno/coupling.py: the coupling functional C(i,j).              *)
(* Orbital indices are 0-based as in the code; the energies of orbital p   *)
(* are at position p + 1 of the sequence that stands for the array.        *)

\* the largest number of orbitals considered
MaxMos == 4

NegOne == Fin(TRUE, <<1>>, 0)
NegTwo == Fin(TRUE, <<1>>, 1)
NegThreeHalves == Fin(TRUE, <<3>>, -1)
Three == Fin(FALSE, <<3>>, 0)
Huge == Fin(FALSE, <<1>>, 600)
Huge4 == Fin(FALSE, <<1>>, 602)

\* a numpy array of orbital energies, and what is not one (a plain list)
EnergyArray(vals) == [isarray |-> TRUE, vals |-> vals]
EnergyList(vals) == [isarray |-> FALSE, vals |-> vals]

\* a numpy array of shape (dim, dim, dim, dim) whose entry [p,q,r,s] is
\* tab[gen(p,q,r,s) mod len(tab)], and what is not one (a nested list)
IntegralArray(dim, gen, tab) == [isarray |-> TRUE, dim |-> dim, gen |-> gen, tab |-> tab]
IntegralList(dim, gen, tab) == [isarray |-> FALSE, dim |-> dim, gen |-> gen, tab |-> tab]

\* the patterns of entries: "prqs" has T[p,q,r,s] = T[q,p,s,r], "pqrs2" has
\* T[p,q,r,s] = T[q,p,r,s], "p2q2" has neither, "flat" has all entries equal
Gens == {"prqs", "pqrs2", "p2q2", "flat"}

\* "psqr", "pqsr2" and "p2qs2" are these patterns with the last two indices
\* exchanged
GenIndex(gen, p, q, r, s) ==
    CASE gen = "prqs" -> p * r + q * s
      [] gen = "pqrs2" -> p + q + r + 2 * s
      [] gen = "p2q2" -> p + 2 * q + r + 2 * s
      [] gen = "psqr" -> p * s + q * r
      [] gen = "pqsr2" -> p + q + s + 2 * r
      [] gen = "p2qs2" -> p + 2 * q + s + 2 * r
      [] OTHER -> 0

\* the array with the last two indices exchanged: T'[p,q,r,s] = T[p,q,s,r]
Transposed(T) ==
    [T EXCEPT !.gen = CASE @ = "prqs" -> "psqr"
                        [] @ = "pqrs2" -> "pqsr2"
                        [] @ = "p2q2" -> "p2qs2"
                        [] OTHER -> @]

\* mo_integrals[p, q, r, s]
Entry(T, p, q, r, s) == T.tab[(GenIndex(T.gen, p, q, r, s) % Len(T.tab)) + 1]

\* mo_energies[p]
Energy(E, p) == E.vals[p + 1]

\* raise ValueError(message), and return value
Raises(message, at, visited) ==
    [ok |-> FALSE, error |-> message, at |-> at, value |-> None, visited |-> visited]
Returns(value, visited) ==
    [ok |-> TRUE, error |-> "", at |-> <<>>, value |-> value, visited |-> visited]

\* the denominator with the energy of orbital i taken twice
energy_denominator_twice_i(E, i, j, a, b) ==
    DblMinus(DblMinus(DblAdd(Energy(E, i), Energy(E, i)), Energy(E, a)), Energy(E, b))

\* denom = eps_i + eps_j - eps_a - eps_b
energy_denominator(E, i, j, a, b) ==
    DblMinus(DblMinus(DblAdd(Energy(E, i), Energy(E, j)), Energy(E, a)), Energy(E, b))

\* the amplitude factor without the doubling of (ia|jb)
pair_contribution_undoubled(T, i, j, a, b, denom) ==
    LET iajb == Entry(T, i, j, a, b)
        ibja == Entry(T, i, j, b, a)
    IN  DblOver(DblMul(DblMinus(iajb, ibja), iajb), denom)

\* t_abij * iajb / denom
pair_contribution(T, i, j, a, b, denom) ==
    LET iajb == Entry(T, i, j, a, b)
        ibja == Entry(T, i, j, b, a)
        t_abij == DblMinus(DblMul(Two, iajb), ibja)
    IN  DblOver(DblMul(t_abij, iajb), denom)

\* the test with zero let through
denominator_rejected_strict(denom) == DblGreater(denom, Zero)

\* if denom >= 0.0
denominator_rejected(denom) == DblGeq(denom, Zero)

\* the double loop over the virtual orbitals, from the pair (a, b) on;
\* visited counts the virtual pairs whose denominator has been computed
RECURSIVE virtual_loop(_, _, _, _, _, _, _, _, _)

\* the body of the loop for the pair (a, b), whose denominator is denom
virtual_step(i, j, E, T, n_occ, a, b, e_pair, visited, denom) ==
    IF denominator_rejected(denom)
    THEN [Raises("Non-positive energy denominator", <<i, j, a, b>>, visited + 1)
             EXCEPT !.value = denom]
    ELSE virtual_loop(i, j, E, T, n_occ, a, b + 1,
                      DblAdd(e_pair, pair_contribution(T, i, j, a, b, denom)),
                      visited + 1)

virtual_loop(i, j, E, T, n_occ, a, b, e_pair, visited) ==
    IF a >= Len(E.vals) THEN Returns(DblAbs(e_pair), visited)
    ELSE IF b >= Len(E.vals)
    THEN virtual_loop(i, j, E, T, n_occ, a + 1, n_occ, e_pair, visited)
    ELSE virtual_step(i, j, E, T, n_occ, a, b, e_pair, visited,
                      energy_denominator(E, i, j, a, b))

\* the sum taken for equal indices too
pair_value_always_summed(i, j, E, T, n_occ) ==
    virtual_loop(i, j, E, T, n_occ, n_occ, n_occ, Zero, 0)

\* what the function does once its inputs are validated
pair_value(i, j, E, T, n_occ) ==
    IF i = j THEN Returns(Zero, 0)
    ELSE virtual_loop(i, j, E, T, n_occ, n_occ, n_occ, Zero, 0)

\* equal indices answered before n_occ is compared to n_mos
configured_value_self_null_first(i, j, E, T, n_occ) ==
    IF i = j THEN Returns(Zero, 0)
    ELSE IF n_occ >= Len(E.vals)
    THEN Raises("n_occ must be less than n_mos", <<n_occ, Len(E.vals)>>, 0)
    ELSE pair_value(i, j, E, T, n_occ)

\* the function from the test of n_occ against n_mos on
configured_value(i, j, E, T, n_occ) ==
    IF n_occ >= Len(E.vals)
    THEN Raises("n_occ must be less than n_mos", <<n_occ, Len(E.vals)>>, 0)
    ELSE pair_value(i, j, E, T, n_occ)

\* the function from the examination of the arrays on
shaped_value(i, j, E, T, n_occ) ==
    LET n_mos == Len(E.vals)
    IN  IF ~E.isarray
        THEN Raises("mo_energies must be a numpy array", <<>>, 0)
        ELSE IF ~T.isarray
        THEN Raises("mo_integrals must be a numpy array", <<>>, 0)
        ELSE IF T.dim # n_mos
        THEN Raises("mo_integrals shape inconsistent with mo_energies length",
                    <<T.dim, n_mos>>, 0)
        ELSE configured_value(i, j, E, T, n_occ)

\* the function with the arrays examined before the indices
evaluate_coupling_functional_arrays_first(i, j, E, T, n_occ) ==
    LET n_mos == Len(E.vals)
    IN  IF ~E.isarray
        THEN Raises("mo_energies must be a numpy array", <<>>, 0)
        ELSE IF ~T.isarray
        THEN Raises("mo_integrals must be a numpy array", <<>>, 0)
        ELSE IF T.dim # n_mos
        THEN Raises("mo_integrals shape inconsistent with mo_energies length",
                    <<T.dim, n_mos>>, 0)
        ELSE IF i < 0 \/ i >= n_occ
        THEN Raises("Orbital index i out of bounds", <<i, n_occ>>, 0)
        ELSE IF j < 0 \/ j >= n_occ
        THEN Raises("Orbital index j out of bounds", <<j, n_occ>>, 0)
        ELSE configured_value(i, j, E, T, n_occ)

evaluate_coupling_functional(i, j, E, T, n_occ) ==
    IF i < 0 \/ i >= n_occ
    THEN Raises("Orbital index i out of bounds", <<i, n_occ>>, 0)
    ELSE IF j < 0 \/ j >= n_occ
    THEN Raises("Orbital index j out of bounds", <<j, n_occ>>, 0)
    ELSE shaped_value(i, j, E, T, n_occ)

\* the monitor is constructed and left alone
MonitorIdle ==
    /\ criteria = ConvergenceCriteria(Two, Eighth, NoLimit)
    /\ heap = <<>>
    /\ _records = <<>>
    /\ _converged = FALSE
    /\ ret = 0
    /\ raised = FALSE
    /\ held = [has |-> FALSE, alias |-> FALSE, items |-> <<>>]
    /\ calls = <<>>
    /\ pristine = [log |-> <<>>, converged |-> FALSE]

\* energies of n_mos orbitals: the first k lie low, the others high, and
\* with tail the last one lies midway between the first two
OccE == <<NegTwo, NegOne>>
VirtE == <<One, Two>>
EnergyProfile(n_mos, k, tail) ==
    [q \in 1..n_mos |->
        IF tail /\ q = n_mos THEN NegThreeHalves
        ELSE IF q - 1 < k THEN OccE[((q - 1) % 2) + 1] ELSE VirtE[((q - 1) % 2) + 1]]

Tables ==
    [1..3 -> {One, Three}] \cup
    {<<Zero, One, Three>>, <<One, Zero, Three>>, <<Huge, One, Huge4>>}

\* well-formed arrays of every size, and malformed ones of one size
CouplingData ==
    {<<EnergyArray(EnergyProfile(n, k, tail)), IntegralArray(n, g, tab)>> :
        <<n, k, tail, g, tab>> \in
            {x \in (2..MaxMos) \X (1..MaxMos) \X BOOLEAN \X Gens \X Tables :
                x[2] < x[1]}}
    \cup
    {<<EnergyList(EnergyProfile(3, 2, FALSE)), IntegralArray(3, "prqs", <<One, Three, One>>)>>,
     <<EnergyArray(EnergyProfile(3, 2, FALSE)), IntegralList(3, "prqs", <<One, Three, One>>)>>,
     <<EnergyList(EnergyProfile(3, 2, FALSE)), IntegralList(2, "prqs", <<One, Three, One>>)>>,
     <<EnergyArray(EnergyProfile(3, 2, FALSE)), IntegralArray(2, "prqs", <<One, Three, One>>)>>,
     <<EnergyArray(EnergyProfile(2, 1, FALSE)), IntegralArray(3, "prqs", <<One, Three, One>>)>>}

InitCoupling ==
    /\ MonitorIdle
    /\ NoAssembler
    /\ NoThreads
    /\ \E d \in CouplingData : mo_energies = d[1] /\ mo_integrals = d[2]
    /\ reference_wavefunction = [attrs |-> {}, mo_occ |-> <<>>, n_electrons |-> 0]
    /\ outcome = [call |-> "none"]

\* a call evaluate_coupling_functional(i, j, mo_energies, mo_integrals, n_occ);
\* the function keeps no state, so one call on each input shows all it does
CouplingCall(i, j, n_occ) ==
    /\ outcome.call = "none"
    /\ outcome' = [call |-> "evaluate_coupling_functional",
                   i |-> i, j |-> j, n_occ |-> n_occ,
                   result |-> evaluate_coupling_functional(i, j, mo_energies,
                                                           mo_integrals, n_occ)]
    /\ UNCHANGED <<mvars, mo_energies, mo_integrals, reference_wavefunction, avars, tvars>>

EvaluateCoupling ==
    \E i \in -1..(MaxMos - 1), j \in -1..(MaxMos - 1), n_occ \in 0..MaxMos :
        CouplingCall(i, j, n_occ)

NextCoupling == EvaluateCoupling

SpecCoupling == InitCoupling /\ [][NextCoupling]_vars

----------------------------------------------------------------------------
(* Properties of the coupling functional, over SpecCoupling.               *)

\* the state after a call of evaluate_coupling_functional
Evaluated == outcome.call = "evaluate_coupling_functional"

\* the virtual orbitals of a call
Virtuals(E, n_occ) == n_occ..(Len(E.vals) - 1)

\* arrays of matching shape, with fewer occupied orbitals than orbitals
WellShaped(E, T, n_occ) ==
    E.isarray /\ T.isarray /\ T.dim = Len(E.vals) /\ n_occ < Len(E.vals)

\* every denominator of the pair (i, j) is negative
DenominatorsNegative(E, i, j, n_occ) ==
    \A a \in Virtuals(E, n_occ), b \in Virtuals(E, n_occ) :
        DblLess(energy_denominator(E, i, j, a, b), Zero)

\* the call was made on inputs that satisfy the data model
ValidCall ==
    /\ Evaluated
    /\ outcome.i \in 0..(outcome.n_occ - 1)
    /\ outcome.j \in 0..(outcome.n_occ - 1)
    /\ WellShaped(mo_energies, mo_integrals, outcome.n_occ)
    /\ DenominatorsNegative(mo_energies, outcome.i, outcome.j, outcome.n_occ)

\* the call with the two occupied indices exchanged
Exchanged ==
    evaluate_coupling_functional(outcome.j, outcome.i, mo_energies, mo_integrals,
                                 outcome.n_occ)

\* both calls return, and return the same number (or both return NaN)
SameValue(r1, r2) == r1.ok /\ r2.ok /\ r1.value = r2.value

\* T[i,j,a,b] = T[j,i,a,b] for all virtual a, b
SlicesEqual(E, T, i, j, n_occ) ==
    \A a \in Virtuals(E, n_occ), b \in Virtuals(E, n_occ) :
        Entry(T, i, j, a, b) = Entry(T, j, i, a, b)

\* C11 as stated: on every tensor of the data model, with all denominators
\* negative, C(i,j) equals C(j,i).
C11_SymmetricOnEveryTensor ==
    ValidCall => SameValue(outcome.result, Exchanged)

\* C11, amended: when moreover T[i,j,a,b] = T[j,i,a,b] for all virtual a, b,
\* C(i,j) and C(j,i) are the same value.
C11_SymmetricOnEqualSlices ==
    (ValidCall /\ SlicesEqual(mo_energies, mo_integrals, outcome.i, outcome.j,
                              outcome.n_occ))
        => SameValue(outcome.result, Exchanged)

\* an off-diagonal pair of orbitals of different energy, on equal slices
\* whose entries differ under exchange of the virtuals, with C(i,j) > 0
C11_Witness ==
    /\ ValidCall
    /\ outcome.i # outcome.j
    /\ SlicesEqual(mo_energies, mo_integrals, outcome.i, outcome.j, outcome.n_occ)
    /\ Energy(mo_energies, outcome.i) # Energy(mo_energies, outcome.j)
    /\ \E a \in Virtuals(mo_energies, outcome.n_occ),
          b \in Virtuals(mo_energies, outcome.n_occ) :
           Entry(mo_integrals, outcome.i, outcome.j, a, b)
               # Entry(mo_integrals, outcome.i, outcome.j, b, a)
    /\ DblGreater(outcome.result.value, Zero)

\* the k-th virtual pair (a, b) in lexicographic order, k counted from 0
VirtualPair(E, n_occ, k) ==
    LET n_virt == Len(E.vals) - n_occ
    IN  <<n_occ + (k \div n_virt), n_occ + (k % n_virt)>>

\* [2 (ia|jb) - (ib|ja)] (ia|jb) / (e_i + e_j - e_a - e_b) from the two integrals
FormulaTerm(E, i, j, a, b, iajb, ibja) ==
    DblOver(DblMul(DblMinus(DblMul(Two, iajb), ibja), iajb),
            energy_denominator(E, i, j, a, b))

\* the term of the formula for a tensor in chemist ordering (pq|rs) = T[p,q,r,s]
ChemistTerm(E, T, i, j, a, b) ==
    FormulaTerm(E, i, j, a, b, Entry(T, i, a, j, b), Entry(T, i, b, j, a))

\* the sum of the chemist-ordered terms of the first k virtual pairs
RECURSIVE ChemistSum(_, _, _, _, _, _)
ChemistSum(E, T, i, j, n_occ, k) ==
    IF k = 0 THEN Zero
    ELSE LET ab == VirtualPair(E, n_occ, k - 1)
         IN  DblAdd(ChemistSum(E, T, i, j, n_occ, k - 1),
                    ChemistTerm(E, T, i, j, ab[1], ab[2]))

\* the number of virtual pairs
NumVirtualPairs(E, n_occ) == (Len(E.vals) - n_occ) * (Len(E.vals) - n_occ)

\* C12: for i # j on valid inputs with all denominators negative, the value
\* returned is | sum over virtual a, b of (2 (ia|jb) - (ib|ja)) (ia|jb) /
\* (e_i + e_j - e_a - e_b) | with (ia|jb) = T[i,a,j,b] and (ib|ja) = T[i,b,j,a],
\* every virtual pair contributing once.
C12_ChemistOrderedPairEnergy ==
    (ValidCall /\ outcome.i # outcome.j)
        => /\ outcome.result.ok
           /\ outcome.result.visited = NumVirtualPairs(mo_energies, outcome.n_occ)
           /\ outcome.result.value =
                  DblAbs(ChemistSum(mo_energies, mo_integrals, outcome.i, outcome.j,
                                    outcome.n_occ,
                                    NumVirtualPairs(mo_energies, outcome.n_occ)))

\* some virtual pair of the call has a denominator that is not negative
SomeDenominatorNonNegative ==
    \E a \in Virtuals(mo_energies, outcome.n_occ),
       b \in Virtuals(mo_energies, outcome.n_occ) :
        DblGeq(energy_denominator(mo_energies, outcome.i, outcome.j, a, b), Zero)

\* a call with occupied indices in range on well-shaped arrays
ShapedCall ==
    /\ Evaluated
    /\ outcome.i \in 0..(outcome.n_occ - 1)
    /\ outcome.j \in 0..(outcome.n_occ - 1)
    /\ WellShaped(mo_energies, mo_integrals, outcome.n_occ)

\* the call raised the denominator error, naming the pair of the call and
\* two virtual orbitals whose denominator, the one reported, is >= 0
DenominatorErrorNamed ==
    LET r == outcome.result
    IN  /\ ~r.ok
        /\ r.error = "Non-positive energy denominator"
        /\ Len(r.at) = 4
        /\ r.at[1] = outcome.i /\ r.at[2] = outcome.j
        /\ r.at[3] \in Virtuals(mo_energies, outcome.n_occ)
        /\ r.at[4] \in Virtuals(mo_energies, outcome.n_occ)
        /\ r.value = energy_denominator(mo_energies, outcome.i, outcome.j,
                                        r.at[3], r.at[4])
        /\ DblGeq(r.value, Zero)

\* C13 as stated: for every i, j in [0, n_occ), equal or not, a virtual pair
\* with a denominator >= 0 makes the call raise the denominator error.
C13_DenominatorErrorForEveryPair ==
    (ShapedCall /\ SomeDenominatorNonNegative) => DenominatorErrorNamed

\* C13, amended: for i # j in [0, n_occ) on otherwise valid inputs, a virtual
\* pair with a denominator >= 0 (zero included) makes the call raise an error
\* that names (i, j) and virtual (a, b) whose denominator is >= 0; for i = j
\* the call returns 0.0 and raises nothing.
C13_DenominatorErrorOffDiagonal ==
    (ShapedCall /\ SomeDenominatorNonNegative)
        => IF outcome.i # outcome.j
           THEN DenominatorErrorNamed
           ELSE outcome.result.ok /\ outcome.result.value = Zero

\* the error is raised for a denominator that is exactly zero, met after a
\* virtual pair whose denominator was negative
C13_Witness ==
    /\ ShapedCall
    /\ outcome.i # outcome.j
    /\ DenominatorErrorNamed
    /\ IsZero(outcome.result.value)
    /\ outcome.result.visited >= 2

\* C14: for i in [0, n_occ) on a well-shaped tensor with n_occ < n_mos,
\* C(i,i) is exactly 0.0 and no virtual pair is visited, whatever the
\* energies and the integrals.
C14_SelfNull ==
    (ShapedCall /\ outcome.i = outcome.j)
        => /\ outcome.result.ok
           /\ outcome.result.value = Zero
           /\ outcome.result.visited = 0

\* a diagonal call on energies some of whose denominators are not negative
\* and on integrals that are not zero
C14_Witness ==
    /\ ShapedCall
    /\ outcome.i = outcome.j
    /\ SomeDenominatorNonNegative
    /\ ~IsZero(Entry(mo_integrals, outcome.i, outcome.i, outcome.n_occ, outcome.n_occ))
    /\ outcome.result.ok

\* C15: every value the function returns, for equal or different indices and
\* whatever the energies and integrals, is >= 0.
C15_NonNegative ==
    (Evaluated /\ outcome.result.ok) => DblGeq(outcome.result.value, Zero)

\* p is an occupied orbital index of the call
InRange(p) == 0 <= p /\ p < outcome.n_occ

\* C16: whenever i or j lies outside [0, n_occ), negative or >= n_occ (hence
\* every index when n_occ <= 0), the call raises the out-of-range error for
\* that index and returns no value; the test comes before every other
\* validation, so this is the error raised on malformed arrays too.
C16_OutOfRangeFirst ==
    (Evaluated /\ ~(InRange(outcome.i) /\ InRange(outcome.j)))
        => /\ ~outcome.result.ok
           /\ outcome.result.value = None
           /\ outcome.result.error =
                  (IF ~InRange(outcome.i) THEN "Orbital index i out of bounds"
                   ELSE "Orbital index j out of bounds")
           /\ outcome.result.at[1] = (IF ~InRange(outcome.i) THEN outcome.i ELSE outcome.j)

\* an index too large is reported while mo_energies is no array and the
\* shapes disagree
C16_Witness ==
    /\ Evaluated
    /\ InRange(outcome.i) /\ outcome.j >= outcome.n_occ
    /\ ~mo_energies.isarray /\ mo_integrals.dim # Len(mo_energies.vals)
    /\ outcome.result.error = "Orbital index j out of bounds"

\* numpy arrays whose shapes agree
ArraysAgree(E, T) == E.isarray /\ T.isarray /\ T.dim = Len(E.vals)

\* C17: whenever n_occ >= n_mos the call returns no value, whatever the
\* indices, and for occupied indices, equal ones included, the error is the
\* one about n_occ: the return of 0.0 for i = j never comes first.
C17_NoVirtualSpace ==
    (Evaluated /\ ArraysAgree(mo_energies, mo_integrals)
               /\ outcome.n_occ >= Len(mo_energies.vals))
        => /\ ~outcome.result.ok
           /\ outcome.result.value = None
           /\ (InRange(outcome.i) /\ InRange(outcome.j))
                  => /\ outcome.result.error = "n_occ must be less than n_mos"
                     /\ outcome.result.at = <<outcome.n_occ, Len(mo_energies.vals)>>

\* a diagonal call with as many occupied orbitals as orbitals
C17_Witness ==
    /\ Evaluated
    /\ ArraysAgree(mo_energies, mo_integrals)
    /\ outcome.n_occ = Len(mo_energies.vals)
    /\ InRange(outcome.i) /\ outcome.j = outcome.i
    /\ outcome.result.error = "n_occ must be less than n_mos"

----------------------------------------------------------------------------
(* util_coupling.py: the signed pair energy that the tests compute beside  *)
(* the coupling, with the same loops and no test of the denominators.      *)

\* the two loops of compute_signed_pair_energy, from the pair (a, b) on
RECURSIVE signed_loop(_, _, _, _, _, _, _, _)
signed_loop(i, j, E, T, n_occ, a, b, e_pair) ==
    IF a >= Len(E.vals) THEN e_pair
    ELSE IF b >= Len(E.vals) THEN signed_loop(i, j, E, T, n_occ, a + 1, n_occ, e_pair)
    ELSE LET eps_i == E.vals[i + 1]
             eps_j == E.vals[j + 1]
             eps_a == E.vals[a + 1]
             eps_b == E.vals[b + 1]
             denom == DblMinus(DblMinus(DblAdd(eps_i, eps_j), eps_a), eps_b)
             iajb == Entry(T, i, j, a, b)
             ibja == Entry(T, i, j, b, a)
             t_abij == DblMinus(DblMul(Two, iajb), ibja)
         IN  signed_loop(i, j, E, T, n_occ, a, b + 1,
                         DblAdd(e_pair, DblOver(DblMul(t_abij, iajb), denom)))

compute_signed_pair_energy(i, j, E, T, n_occ) ==
    IF i = j THEN Zero ELSE signed_loop(i, j, E, T, n_occ, n_occ, n_occ, Zero)

\* C28: for i # j on valid inputs with all denominators negative, the call
\* returns, and returns the absolute value of what compute_signed_pair_energy
\* gives on the same arguments (NaN when that is NaN).
C28_AbsOfSignedPairEnergy ==
    (ValidCall /\ outcome.i # outcome.j)
        => /\ outcome.result.ok
           /\ outcome.result.value =
                  DblAbs(compute_signed_pair_energy(outcome.i, outcome.j, mo_energies,
                                                    mo_integrals, outcome.n_occ))

\* two virtual orbitals, integrals that differ under the exchange of a and
\* b, and a signed pair energy below zero
C28_Witness ==
    /\ ValidCall
    /\ outcome.i # outcome.j
    /\ Len(mo_energies.vals) - outcome.n_occ >= 2
    /\ \E a \in Virtuals(mo_energies, outcome.n_occ),
          b \in Virtuals(mo_energies, outcome.n_occ) :
           Entry(mo_integrals, outcome.i, outcome.j, a, b)
               # Entry(mo_integrals, outcome.i, outcome.j, b, a)
    /\ DblLess(compute_signed_pair_energy(outcome.i, outcome.j, mo_energies,
                                          mo_integrals, outcome.n_occ), Zero)
    /\ DblGreater(outcome.result.value, Zero)

\* T[i,j,a,b] = T[j,i,b,a] for all occupied i, j and virtual a, b
IntegralSymmetry(E, T, n_occ) ==
    \A i \in 0..(n_occ - 1), j \in 0..(n_occ - 1) :
        \A a \in Virtuals(E, n_occ), b \in Virtuals(E, n_occ) :
            Entry(T, i, j, a, b) = Entry(T, j, i, b, a)

\* the call was made on a tensor with the integral symmetry
SymmetricCall ==
    ValidCall /\ IntegralSymmetry(mo_energies, mo_integrals, outcome.n_occ)

\* C29 as stated: on a tensor with T[i,j,a,b] = T[j,i,b,a], all denominators
\* being negative, the calls for (i, j) and for (j, i) return the same value.
C29_SymmetricUnderIntegralSymmetry ==
    SymmetricCall => SameValue(outcome.result, Exchanged)

\* T[i,j,a,b] = T[i,j,b,a] for all virtual a, b
VirtualSymmetry(E, T, i, j, n_occ) ==
    \A a \in Virtuals(E, n_occ), b \in Virtuals(E, n_occ) :
        Entry(T, i, j, a, b) = Entry(T, i, j, b, a)

\* C29, amended: on such a tensor the call for (j, i) returns what the call
\* for (i, j) returns on the tensor with the two virtual indices exchanged,
\* that is the same terms accumulated in the other order; the two calls on
\* the tensor itself return the same value when moreover
\* T[i,j,a,b] = T[i,j,b,a] for all virtual a, b.
C29_SymmetricUpToSummationOrder ==
    SymmetricCall
        => /\ SameValue(Exchanged,
                        evaluate_coupling_functional(outcome.i, outcome.j, mo_energies,
                            Transposed(mo_integrals), outcome.n_occ))
           /\ VirtualSymmetry(mo_energies, mo_integrals, outcome.i, outcome.j,
                              outcome.n_occ)
                  => SameValue(outcome.result, Exchanged)

\* a tensor with the integral symmetry on which the two calls return
\* numbers that differ
C29_Witness ==
    /\ SymmetricCall
    /\ outcome.i # outcome.j
    /\ outcome.result.value.kind = "fin"
    /\ Exchanged.value.kind = "fin"
    /\ outcome.result.value # Exchanged.value

----------------------------------------------------------------------------
(* tangelo/dlpno/pairs.py: the screening of the occupied pairs.            *)

\* an optional argument: left at its default None, or given
NotGiven == [given |-> FALSE, array |-> <<>>]
Given(array) == [given |-> TRUE, array |-> array]

\* the reference object: the names of the attributes it has, the values of
\* mo_occ and n_electrons, and the arrays its other attributes give
Reference(attrs, mo_occ, n_electrons, energies, integrals) ==
    [attrs |-> attrs, mo_occ |-> mo_occ, n_electrons |-> n_electrons,
     mo_energies |-> energies, integrals |-> integrals]

\* every attribute taken to be there
hasattr_always(ref, name) == TRUE

hasattr(ref, name) == name \in ref.attrs

\* raise ValueError(message) out of build_pair_set, and return retained_pairs;
\* evaluated counts the calls of evaluate_coupling_functional made, probed
\* holds the attributes of the reference object that were looked for
PairsRaise(message, at, evaluated, probed) ==
    [ok |-> FALSE, error |-> message, at |-> at, pairs |-> <<>>,
     evaluated |-> evaluated, probed |-> probed]
PairsReturn(retained_pairs, evaluated, probed) ==
    [ok |-> TRUE, error |-> "", at |-> <<>>, pairs |-> retained_pairs,
     evaluated |-> evaluated, probed |-> probed]

\* the threshold test that lets every number pass
threshold_rejected_type_only(threshold) == threshold.kind = "none"

\* not isinstance(threshold, (int, float)) or threshold < 0
threshold_rejected(threshold) ==
    threshold.kind = "none" \/ DblLess(threshold, Zero)

\* np.array(reference_wavefunction.mo_energies)
np_array(E) == [E EXCEPT !.isarray = TRUE]

\* int(np.sum(mo_occ > 1.5))
doubly_occupied(mo_occ) == Cardinality({q \in 1..Len(mo_occ) : 2 * mo_occ[q] > 3})

\* the retention rule with the comparison strict
retained_strict(c_ij, threshold) == DblGreater(c_ij, threshold)

\* if c_ij >= threshold
retained(c_ij, threshold) == DblGeq(c_ij, threshold)

\* the pair appended with its indices exchanged
append_pair_exchanged(retained_pairs, i, j) == Append(retained_pairs, <<j, i>>)

\* retained_pairs.append((i, j))
append_pair(retained_pairs, i, j) == Append(retained_pairs, <<i, j>>)

\* a failed evaluation taken for a value
propagates_never(c_ij) == FALSE

\* the exception raised by evaluate_coupling_functional leaves build_pair_set
propagates(c_ij) == ~c_ij.ok

\* the two loops keeping the pairs whose coupling is at most the threshold
RECURSIVE pair_loop_at_most(_, _, _, _, _, _, _, _, _)
pair_loop_at_most(i, j, E, T, n_occ, threshold, retained_pairs, evaluated, probed) ==
    IF i >= n_occ THEN PairsReturn(retained_pairs, evaluated, probed)
    ELSE IF j >= n_occ
         THEN pair_loop_at_most(i + 1, i + 2, E, T, n_occ, threshold, retained_pairs,
                                evaluated, probed)
    ELSE LET c_ij == evaluate_coupling_functional(i, j, E, T, n_occ)
         IN  IF propagates(c_ij)
             THEN PairsRaise(c_ij.error, c_ij.at, evaluated + 1, probed)
             ELSE pair_loop_at_most(i, j + 1, E, T, n_occ, threshold,
                      IF DblGeq(threshold, c_ij.value)
                      THEN append_pair(retained_pairs, i, j) ELSE retained_pairs,
                      evaluated + 1, probed)

\* the two loops over i < j, from the pair (i, j) on
RECURSIVE pair_loop(_, _, _, _, _, _, _, _, _)
pair_loop(i, j, E, T, n_occ, threshold, retained_pairs, evaluated, probed) ==
    IF i >= n_occ THEN PairsReturn(retained_pairs, evaluated, probed)
    ELSE IF j >= n_occ
         THEN pair_loop(i + 1, i + 2, E, T, n_occ, threshold, retained_pairs,
                        evaluated, probed)
    ELSE LET c_ij == evaluate_coupling_functional(i, j, E, T, n_occ)
         IN  IF propagates(c_ij)
             THEN PairsRaise(c_ij.error, c_ij.at, evaluated + 1, probed)
             ELSE pair_loop(i, j + 1, E, T, n_occ, threshold,
                      IF retained(c_ij.value, threshold)
                      THEN append_pair(retained_pairs, i, j) ELSE retained_pairs,
                      evaluated + 1, probed)

\* the parity test left out
odd_total_never(n_electrons) == FALSE

\* n_electrons % 2 != 0
odd_total(n_electrons) == n_electrons % 2 # 0

\* the number of occupied orbitals that the reference object gives
occupied_count(ref) ==
    IF hasattr(ref, "mo_occ") THEN doubly_occupied(ref.mo_occ)
    ELSE ref.n_electrons \div 2

build_pair_set(ref, threshold, energies_arg, integrals_arg) ==
    LET E == IF energies_arg.given THEN energies_arg.array
             ELSE np_array(ref.mo_energies)
        T == IF integrals_arg.given THEN integrals_arg.array ELSE ref.integrals
        for_energies == IF energies_arg.given THEN {} ELSE {"mo_energies"}
        for_integrals ==
            for_energies \cup
                (IF integrals_arg.given THEN {} ELSE {"get_full_space_integrals"})
        for_occupation ==
            for_integrals \cup
                (IF hasattr(ref, "mo_occ") THEN {"mo_occ"} ELSE {"mo_occ", "n_electrons"})
    IN  IF threshold_rejected(threshold)
        THEN PairsRaise("threshold must be a non-negative number", <<>>, 0, {})
        ELSE IF ~energies_arg.given /\ ~hasattr(ref, "mo_energies")
        THEN PairsRaise("reference_wavefunction must have 'mo_energies'", <<>>, 0,
                        for_energies)
        ELSE IF ~integrals_arg.given /\ ~hasattr(ref, "get_full_space_integrals")
        THEN PairsRaise("reference_wavefunction must have 'get_full_space_integrals'",
                        <<>>, 0, for_integrals)
        ELSE IF ~hasattr(ref, "mo_occ") /\ ~hasattr(ref, "n_electrons")
        THEN PairsRaise("reference_wavefunction must have 'mo_occ' or 'n_electrons'",
                        <<>>, 0, for_occupation)
        ELSE IF ~hasattr(ref, "mo_occ") /\ odd_total(ref.n_electrons)
        THEN PairsRaise("Expected even number of electrons", <<ref.n_electrons>>, 0,
                        for_occupation)
        ELSE IF occupied_count(ref) <= 0
        THEN PairsRaise("Number of occupied orbitals must be positive",
                        <<occupied_count(ref)>>, 0, for_occupation)
        ELSE pair_loop(0, 1, E, T, occupied_count(ref), threshold, <<>>, 0,
                       for_occupation)

\* the arrays a caller extracts: well-formed ones, and a list of energies
PairTables == {<<One, Three, One>>, <<Three, One, Zero>>}
PairData ==
    {<<EnergyArray(EnergyProfile(n, k, tail)), IntegralArray(n, g, tab)>> :
        <<n, k, tail, g, tab>> \in
            {x \in (3..MaxMos) \X (1..MaxMos) \X BOOLEAN \X {"prqs", "p2q2"} \X PairTables :
                x[2] = x[1] - 1 \/ (x[2] = x[1] - 2 /\ ~x[3])}}
    \cup
    {<<EnergyArray(EnergyProfile(MaxMos, MaxMos - 1, FALSE)),
       IntegralArray(MaxMos, "prqs", <<Huge, One, Huge4>>)>>,
     <<EnergyArray(EnergyProfile(4, 2, FALSE)),
       IntegralArray(4, "prqs", <<Huge, One, Huge4>>)>>,
     <<EnergyArray(<<NegTwo, NegTwo, NegOne, NegThreeHalves>>),
       IntegralArray(4, "prqs", <<One, Three, One>>)>>,
     <<EnergyList(EnergyProfile(3, 2, FALSE)), IntegralArray(3, "prqs", <<One, Three, One>>)>>,
     <<EnergyArray(EnergyProfile(3, 2, FALSE)), IntegralArray(4, "prqs", <<One, Three, One>>)>>}

\* the arrays of a reference object that differ from the extracted ones
OwnEnergies == EnergyList(EnergyProfile(3, 2, FALSE))
OwnIntegrals == IntegralArray(3, "p2q2", <<Three, One, Zero>>)

\* mo_occ with the first n orbitals doubly occupied, then singles singly
Occupations(n, singles) ==
    [q \in 1..MaxMos |-> IF q <= n THEN 2 ELSE IF q <= n + singles THEN 1 ELSE 0]

\* what a reference object says of its occupation: attributes and values
OccupationData ==
    {<<{"mo_occ", "n_electrons"}, Occupations(n, 0), 2 * n>> : n \in 0..(MaxMos - 1)}
    \cup {<<{"mo_occ"}, Occupations(1, 1), 0>>}
    \cup {<<{"n_electrons"}, <<>>, e>> : e \in {-2, 0, 1, 4}}
    \cup {<<{}, <<>>, 0>>}

\* which arrays a reference object has, and whether they are the extracted ones
ArrayData(d) ==
    {<<{"mo_energies", "get_full_space_integrals"}, d[1], d[2]>>,
     <<{"mo_energies", "get_full_space_integrals"}, OwnEnergies, OwnIntegrals>>,
     <<{"mo_energies"}, d[1], d[2]>>,
     <<{"get_full_space_integrals"}, d[1], d[2]>>,
     <<{}, d[1], d[2]>>}

InitPairs ==
    /\ MonitorIdle
    /\ NoAssembler
    /\ NoThreads
    /\ \E d \in PairData :
         /\ mo_energies = d[1]
         /\ mo_integrals = d[2]
         /\ \E o \in OccupationData, a \in ArrayData(d) :
              reference_wavefunction = Reference(o[1] \cup a[1], o[2], o[3], a[2], a[3])
    /\ outcome = [call |-> "none"]

\* the thresholds tried: no number, a negative one, and numbers among which
\* some of the couplings of the data
Seventh == DblOver(One, DblFromDecimal(FALSE, 7, 0))
NineEighths == DblFromDecimal(FALSE, 1125, -3)
Thresholds == {None, Inf(TRUE), NegOne, Zero, Seventh, One, NineEighths}

\* a call build_pair_set(reference_wavefunction, threshold, ...) with the
\* extracted arrays passed or not; the function keeps no state, so one call
\* on each input shows all it does
PairSetCall(threshold, pass_energies, pass_integrals) ==
    /\ outcome' = [call |-> "build_pair_set",
                   threshold |-> threshold,
                   mo_energies |-> IF pass_energies THEN Given(mo_energies) ELSE NotGiven,
                   mo_integrals |-> IF pass_integrals THEN Given(mo_integrals) ELSE NotGiven,
                   result |-> build_pair_set(reference_wavefunction, threshold,
                                 IF pass_energies THEN Given(mo_energies) ELSE NotGiven,
                                 IF pass_integrals THEN Given(mo_integrals) ELSE NotGiven)]
    /\ UNCHANGED <<mvars, mo_energies, mo_integrals, reference_wavefunction, avars, tvars>>

BuildPairSet ==
    /\ outcome.call = "none"
    /\ \E threshold \in Thresholds, pass_energies \in BOOLEAN, pass_integrals \in BOOLEAN :
           PairSetCall(threshold, pass_energies, pass_integrals)

NextPairs == BuildPairSet

SpecPairs == InitPairs /\ [][NextPairs]_vars

----------------------------------------------------------------------------
(* Properties of the pair screening, over SpecPairs.                       *)

\* the state after a call of build_pair_set
Screened == outcome.call = "build_pair_set"

\* the arrays and the number of occupied orbitals that the call works with
UsedEnergies ==
    IF outcome.mo_energies.given THEN outcome.mo_energies.array
    ELSE np_array(reference_wavefunction.mo_energies)
UsedIntegrals ==
    IF outcome.mo_integrals.given THEN outcome.mo_integrals.array
    ELSE reference_wavefunction.integrals
UsedOcc == occupied_count(reference_wavefunction)

\* C(i,j) as the call evaluates it
Coupling(i, j) == evaluate_coupling_functional(i, j, UsedEnergies, UsedIntegrals, UsedOcc)

\* the pairs i < j of occupied orbitals
OccupiedPairs == {x \in (0..(UsedOcc - 1)) \X (0..(UsedOcc - 1)) : x[1] < x[2]}

\* the elements of a sequence
Elements(seq) == {seq[k] : k \in 1..Len(seq)}

\* the call returned a list
ScreenedOk == Screened /\ outcome.result.ok

\* C18: when every pair evaluation succeeds, the list returned holds exactly
\* the pairs (i, j), 0 <= i < j < n_occ, with C(i,j) >= threshold, a coupling
\* equal to the threshold included.
C18_RetentionRule ==
    ScreenedOk
        => Elements(outcome.result.pairs) =
               {x \in OccupiedPairs : DblGeq(Coupling(x[1], x[2]).value, outcome.threshold)}

\* a positive threshold met exactly by one pair, which is retained, while
\* another pair falls below it and is dropped
C18_Witness ==
    /\ ScreenedOk
    /\ DblGreater(outcome.threshold, Zero)
    /\ \E x \in Elements(outcome.result.pairs) :
           DblEq(Coupling(x[1], x[2]).value, outcome.threshold)
    /\ \E x \in OccupiedPairs : x \notin Elements(outcome.result.pairs)

\* (i, j) comes before (k, l) in lexicographic order
LexLess(x, y) == x[1] < y[1] \/ (x[1] = y[1] /\ x[2] < y[2])

\* C19: the list returned is strictly increasing in the lexicographic order
\* of (i, j), so that no pair occurs twice, and every element has i < j.
C19_OrderedPairs ==
    ScreenedOk
        => LET pairs == outcome.result.pairs
           IN  /\ \A k \in 1..Len(pairs) : pairs[k][1] < pairs[k][2]
               /\ \A k \in 1..(Len(pairs) - 1) : LexLess(pairs[k], pairs[k + 1])

\* a list of three pairs, from two values of i
C19_Witness ==
    /\ ScreenedOk
    /\ Len(outcome.result.pairs) >= 3
    /\ outcome.result.pairs[1][1] # outcome.result.pairs[3][1]

\* the call made once more on the same data with another threshold
ScreenedWith(threshold) ==
    build_pair_set(reference_wavefunction, threshold, outcome.mo_energies,
                   outcome.mo_integrals)

\* C20: for the same reference data and thresholds 0 <= t1 <= t2 for which
\* both calls return, every pair returned with t2 is returned with t1.
C20_Monotone ==
    ScreenedOk
        => \A t1 \in Thresholds :
               (DblGeq(t1, Zero) /\ DblGeq(outcome.threshold, t1)
                                 /\ ScreenedWith(t1).ok)
                   => Elements(outcome.result.pairs) \subseteq
                          Elements(ScreenedWith(t1).pairs)

\* a threshold that keeps a pair, above a smaller one that keeps one more
C20_Witness ==
    /\ ScreenedOk
    /\ outcome.result.pairs # <<>>
    /\ \E t1 \in Thresholds :
           /\ DblGeq(t1, Zero) /\ DblGreater(outcome.threshold, t1)
           /\ ScreenedWith(t1).ok
           /\ Len(ScreenedWith(t1).pairs) > Len(outcome.result.pairs)

\* C21: a call with threshold 0 that returns gives n_occ*(n_occ-1)/2 pairs,
\* each with i < j.
C21_ZeroThresholdKeepsAll ==
    (ScreenedOk /\ DblEq(outcome.threshold, Zero))
        => /\ Len(outcome.result.pairs) = (UsedOcc * (UsedOcc - 1)) \div 2
           /\ \A k \in 1..Len(outcome.result.pairs) :
                  outcome.result.pairs[k][1] < outcome.result.pairs[k][2]

\* the threshold of the call is a number below zero
NegativeThreshold ==
    Screened /\ outcome.threshold.kind # "none" /\ DblLess(outcome.threshold, Zero)

\* C22: a call with a negative threshold raises the threshold error and
\* returns no list, whatever the reference object and the arrays passed;
\* no attribute of the reference object has been looked for and no pair
\* has been evaluated by then.
C22_NegativeThresholdRejected ==
    NegativeThreshold
        => /\ ~outcome.result.ok
           /\ outcome.result.error = "threshold must be a non-negative number"
           /\ outcome.result.pairs = <<>>
           /\ outcome.result.evaluated = 0
           /\ outcome.result.probed = {}

\* a negative threshold on data for which threshold 0 returns pairs
C22_Witness ==
    /\ NegativeThreshold
    /\ ScreenedWith(Zero).ok
    /\ ScreenedWith(Zero).pairs # <<>>

\* the call raised one of the three errors about data the reference lacks
MissingDataError ==
    /\ ~outcome.result.ok
    /\ outcome.result.error \in
           {"reference_wavefunction must have 'mo_energies'",
            "reference_wavefunction must have 'get_full_space_integrals'",
            "reference_wavefunction must have 'mo_occ' or 'n_electrons'"}

\* a required item is neither an attribute of the reference object nor passed
ItemMissing ==
    \/ ~outcome.mo_energies.given /\ "mo_energies" \notin reference_wavefunction.attrs
    \/ ~outcome.mo_integrals.given
           /\ "get_full_space_integrals" \notin reference_wavefunction.attrs
    \/ reference_wavefunction.attrs \cap {"mo_occ", "n_electrons"} = {}

\* both arrays were passed to the call
BothGiven == outcome.mo_energies.given /\ outcome.mo_integrals.given

\* the reference object stripped of its energies and of its integral accessor
WithoutArrays(ref) ==
    [ref EXCEPT !.attrs = @ \ {"mo_energies", "get_full_space_integrals"},
                !.mo_energies = [isarray |-> FALSE, vals |-> <<>>],
                !.integrals = [isarray |-> FALSE, dim |-> 0, gen |-> "none", tab |-> <<>>]]

\* C23 as stated: a missing-data error exactly when an item is missing, and
\* with both arrays passed nothing is asked of the reference object.
C23_NothingNeededOfReference ==
    Screened
        => /\ MissingDataError <=> ItemMissing
           /\ BothGiven => outcome.result.probed = {}

\* C23, amended: with a threshold that is accepted, a missing-data error
\* exactly when an item is missing; with both arrays passed the energies
\* and the integral accessor of the reference object are never looked for
\* and the outcome is that of the call on the reference object without
\* them, while the occupation is still taken from the reference object.
C23_ArraysBypassReference ==
    (Screened /\ outcome.threshold.kind # "none" /\ ~DblLess(outcome.threshold, Zero))
        => /\ MissingDataError <=> ItemMissing
           /\ BothGiven =>
                  /\ outcome.result.probed \cap
                         {"mo_energies", "get_full_space_integrals"} = {}
                  /\ outcome.result.probed \cap {"mo_occ", "n_electrons"} # {}
                  /\ outcome.result =
                         build_pair_set(WithoutArrays(reference_wavefunction),
                                        outcome.threshold, outcome.mo_energies,
                                        outcome.mo_integrals)

\* both arrays passed to a call that returns pairs, on a reference object
\* whose own energies and integrals are other ones
C23_Witness ==
    /\ ScreenedOk
    /\ BothGiven
    /\ outcome.result.pairs # <<>>
    /\ {"mo_energies", "get_full_space_integrals"} \subseteq reference_wavefunction.attrs
    /\ reference_wavefunction.mo_energies # outcome.mo_energies.array
    /\ reference_wavefunction.integrals # outcome.mo_integrals.array

\* the call got as far as the occupation: the threshold was accepted and
\* the energies and the integrals were there
ReachedOccupation ==
    /\ Screened
    /\ outcome.threshold.kind # "none" /\ ~DblLess(outcome.threshold, Zero)
    /\ ~ItemMissing

\* n_occ is derived from the electron total, which is odd
OddTotal ==
    /\ "mo_occ" \notin reference_wavefunction.attrs
    /\ reference_wavefunction.n_electrons % 2 = 1

\* the call raised the error named, evaluated no pair and returned no list
RaisedBeforePairs(message) ==
    /\ ~outcome.result.ok
    /\ outcome.result.error = message
    /\ outcome.result.evaluated = 0
    /\ outcome.result.pairs = <<>>

\* C24: a call that gets as far as the occupation raises the parity error
\* when n_occ comes from an odd electron total, and otherwise raises the
\* error about n_occ when the derived n_occ is <= 0; in both cases no pair
\* is evaluated and no list is returned.
C24_OccupationErrors ==
    ReachedOccupation
        => /\ OddTotal => RaisedBeforePairs("Expected even number of electrons")
           /\ (~OddTotal /\ UsedOcc <= 0)
                  => RaisedBeforePairs("Number of occupied orbitals must be positive")

\* an odd electron total on a reference object without an occupation array,
\* the arrays being such that threshold 0 would otherwise return pairs
C24_Witness ==
    /\ ReachedOccupation
    /\ OddTotal
    /\ ~outcome.result.ok
    /\ LET even == [reference_wavefunction EXCEPT !.n_electrons = 4]
       IN  build_pair_set(even, Zero, outcome.mo_energies, outcome.mo_integrals).pairs # <<>>

\* the call got as far as the loops over the pairs
ReachedPairs == ReachedOccupation /\ ~OddTotal /\ UsedOcc > 0

\* the pairs whose evaluation raises, and the first of them
FailingPairs == {x \in OccupiedPairs : ~Coupling(x[1], x[2]).ok}
FirstFailing == CHOOSE x \in FailingPairs : \A y \in FailingPairs : x = y \/ LexLess(x, y)

\* C26: a call that gets as far as the pairs returns a list exactly when no
\* pair evaluation raises; otherwise it raises the error of the first
\* failing pair in lexicographic order, having evaluated the pairs up to
\* that one and no other, and returns no list.
C26_FirstFailureStops ==
    ReachedPairs
        => /\ outcome.result.ok <=> FailingPairs = {}
           /\ FailingPairs # {}
                  => /\ outcome.result.error = Coupling(FirstFailing[1], FirstFailing[2]).error
                     /\ outcome.result.at = Coupling(FirstFailing[1], FirstFailing[2]).at
                     /\ outcome.result.pairs = <<>>
                     /\ outcome.result.evaluated =
                            Cardinality({x \in OccupiedPairs :
                                            x = FirstFailing \/ LexLess(x, FirstFailing)})

\* a first pair that evaluates and would be retained, then a pair whose
\* denominator is not negative
C26_Witness ==
    /\ ReachedPairs
    /\ ~outcome.result.ok
    /\ outcome.result.error = "Non-positive energy denominator"
    /\ outcome.result.evaluated = 2
    /\ DblGeq(Coupling(0, 1).value, outcome.threshold)

----------------------------------------------------------------------------
(* energy_assembler.py: the assembler of the final energies. The setters   *)
(* store a component; every request for an energy ends by an exception.    *)

\* raise error_type(message) out of a request; no value is returned
AssemblerRaises(error_type, message) ==
    [raised |-> error_type, message |-> message, returned |-> FALSE, value |-> None]

\* the completeness test that never finds a stage missing
_check_pipeline_complete_always(flags) == TRUE

\* all(self.pipeline_flags.values())
_check_pipeline_complete(flags) == \A stage \in DOMAIN flags : flags[stage]

\* the body shared by the three requests for a total energy: the guard on
\* the pipeline, then the guard on the assembly not being implemented
total_energy_request(what, phases, mode, flags) ==
    IF mode = "FULL" /\ ~_check_pipeline_complete(flags)
    THEN AssemblerRaises("IncompletePipelineError",
                         <<"Cannot retrieve ", what, " energy: pipeline incomplete">>)
    ELSE AssemblerRaises("IncompletePipelineError",
                         <<what, " energy assembly not yet implemented ", phases>>)

\* the body of get_correlation_energy
correlation_energy_request(level, mode, flags) ==
    IF level \notin {"MP2", "CCSD", "CCSD(T)"}
    THEN AssemblerRaises("ValueError", <<"Unknown correlation level: ", level>>)
    ELSE IF mode = "FULL" /\ ~_check_pipeline_complete(flags)
    THEN AssemblerRaises("IncompletePipelineError",
             <<"Cannot retrieve ", level, " correlation energy: pipeline incomplete">>)
    ELSE AssemblerRaises("IncompletePipelineError",
             <<level, " correlation energy assembly not yet implemented ", "(Phase1)">>)

\* the energies handed to the assembler, the modes and the levels asked for
MaxEnergies == 2
ComponentEnergies == {<<NegOne, Zero, Seventh, NegTwo>>[k] : k \in 1..MaxEnergies}
Modes == {"FULL", "PARTIAL"}
Levels == {"MP2", "CCSD", "CCSD(T)", "CCSDT"}

InitAssembler ==
    /\ MonitorIdle
    /\ NoScreening
    /\ NoThreads
    /\ \E energy \in {None, NegTwo} : EnergyAssembler(energy)

set_mp2_energy(correlation_energy) ==
    /\ mp2_correlation' = correlation_energy
    /\ UNCHANGED <<mvars, cvars, tvars, scf_energy, ccsd_correlation, triples_correction,
                   pipeline_flags, answer>>

set_ccsd_energy(correlation_energy) ==
    /\ ccsd_correlation' = correlation_energy
    /\ UNCHANGED <<mvars, cvars, tvars, scf_energy, mp2_correlation, triples_correction,
                   pipeline_flags, answer>>

set_triples_correction(correction) ==
    /\ triples_correction' = correction
    /\ UNCHANGED <<mvars, cvars, tvars, scf_energy, mp2_correlation, ccsd_correlation,
                   pipeline_flags, answer>>

\* the request recorded with its end
Answered(call, level, mode, end) ==
    /\ answer' = [call |-> call, level |-> level, mode |-> mode, end |-> end]
    /\ UNCHANGED <<mvars, cvars, tvars, scf_energy, mp2_correlation, ccsd_correlation,
                   triples_correction, pipeline_flags>>

get_mp2_energy(mode) ==
    Answered("get_mp2_energy", "", mode,
             total_energy_request("MP2", "(Phase1-4)", mode, pipeline_flags))

get_ccsd_energy(mode) ==
    Answered("get_ccsd_energy", "", mode,
             total_energy_request("CCSD", "(Phase1-6)", mode, pipeline_flags))

get_ccsd_t_energy(mode) ==
    Answered("get_ccsd_t_energy", "", mode,
             total_energy_request("CCSD(T)", "(Phase1-8)", mode, pipeline_flags))

get_correlation_energy(level, mode) ==
    Answered("get_correlation_energy", level, mode,
             correlation_energy_request(level, mode, pipeline_flags))

NextAssembler ==
    \/ \E energy \in ComponentEnergies : set_mp2_energy(energy)
    \/ \E energy \in ComponentEnergies : set_ccsd_energy(energy)
    \/ \E energy \in ComponentEnergies : set_triples_correction(energy)
    \/ \E mode \in Modes : get_mp2_energy(mode)
    \/ \E mode \in Modes : get_ccsd_energy(mode)
    \/ \E mode \in Modes : get_ccsd_t_energy(mode)
    \/ \E level \in Levels, mode \in Modes : get_correlation_energy(level, mode)

SpecAssembler == InitAssembler /\ [][NextAssembler]_vars

\* a request in FULL mode for an energy that exists
FullRequest ==
    /\ answer.call # "none"
    /\ answer.mode = "FULL"
    /\ answer.call = "get_correlation_energy" => answer.level \in {"MP2", "CCSD", "CCSD(T)"}

\* C25: whatever components have been set, every pipeline flag is false, and
\* a request in FULL mode for the MP2, CCSD or CCSD(T) total or correlation
\* energy ends by IncompletePipelineError with the message of an incomplete
\* pipeline, no value being returned.
C25_NoEnergyFromIncompletePipeline ==
    /\ \A stage \in Stages : ~pipeline_flags[stage]
    /\ FullRequest
           => /\ answer.end.raised = "IncompletePipelineError"
              /\ answer.end.message[1] = "Cannot retrieve "
              /\ answer.end.message[3] \in {" energy: pipeline incomplete",
                                            " correlation energy: pipeline incomplete"}
              /\ ~answer.end.returned

\* the three components set, then the CCSD(T) energy asked for in FULL mode
C25_Witness ==
    /\ mp2_correlation # None
    /\ ccsd_correlation # None
    /\ triples_correction # None
    /\ answer.call = "get_ccsd_t_energy"
    /\ answer.mode = "FULL"
    /\ answer.end.raised = "IncompletePipelineError"

----------------------------------------------------------------------------
(* convergence.py: update called from several threads without a lock. A   *)
(* call reads the last record of the list (line 54), appends its record   *)
(* (line 87) and sets the flag (lines 89-90); another thread may run       *)
(* between any two of these.                                               *)

InitThreads ==
    /\ MonitorIdle
    /\ NoScreening
    /\ NoAssembler
    /\ NoThreads

\* the update calls the threads make
ThreadInputs == {<<1, Nine, One>>, <<1, Zero, One>>, <<0, Eight, Two>>}

\* some update call is in progress
InProgress == \E t \in Threads : threads[t].pc # "outside"

\* the call of update: the arguments bound, converged = False (line 50)
Enter(t, iteration, energy, residual_norm) ==
    /\ threads[t].pc = "outside"
    /\ Len(calls) < MaxLen
    /\ threads' = [threads EXCEPT ![t] =
                      [pc |-> "examine", iteration |-> iteration, energy |-> energy,
                       residual_norm |-> residual_norm, converged |-> FALSE,
                       record |-> 0]]
    /\ overlapped' = (overlapped \/ InProgress)
    /\ calls' = Append(calls, <<iteration, energy, residual_norm>>)
    /\ UNCHANGED <<criteria, heap, _records, _converged, ret, raised, held, pristine,
                   cvars, avars>>

\* the list as read one record short
seen_log_stale ==
    Deref(heap, SubSeq(_records, 1, Len(_records) - 1))

\* the list of records as the thread reads it at lines 53-54
seen_log == Deref(heap, _records)

\* lines 53-78: the last record read and the criteria evaluated against it
Examine(t) ==
    LET my == threads[t]
    IN  /\ my.pc = "examine"
        /\ IF update_raises(criteria, seen_log, my.iteration, my.energy, my.residual_norm)
           THEN /\ threads' = [threads EXCEPT ![t] = Outside]
                /\ raised' = TRUE
           ELSE /\ threads' = [threads EXCEPT ![t].pc = "append",
                                              ![t].converged =
                                                  update_converged(criteria, seen_log,
                                                      my.iteration, my.energy,
                                                      my.residual_norm)]
                /\ UNCHANGED raised
        /\ UNCHANGED <<criteria, heap, _records, _converged, ret, held, calls, pristine,
                       overlapped, cvars, avars>>

\* lines 80-87: the record made and appended
AppendRecord(t) ==
    LET my == threads[t]
    IN  /\ my.pc = "append"
        /\ heap' = Append(heap, ConvergenceRecord(my.iteration, my.energy,
                                                  my.residual_norm, my.converged))
        /\ _records' = Append(_records, Len(heap) + 1)
        /\ threads' = [threads EXCEPT ![t].pc = "flag", ![t].record = Len(heap) + 1]
        /\ UNCHANGED <<criteria, _converged, ret, raised, held, calls, pristine,
                       overlapped, cvars, avars>>

\* lines 89-92: the flag set and the record returned
Return(t) ==
    LET my == threads[t]
    IN  /\ my.pc = "flag"
        /\ _converged' = next_converged(_converged, my.converged)
        /\ ret' = my.record
        /\ raised' = FALSE
        /\ threads' = [threads EXCEPT ![t] = Outside]
        /\ UNCHANGED <<criteria, heap, _records, held, calls, pristine, overlapped,
                       cvars, avars>>

NextThreads ==
    \E t \in Threads :
        \/ \E in \in ThreadInputs : Enter(t, in[1], in[2], in[3])
        \/ Examine(t)
        \/ AppendRecord(t)
        \/ Return(t)

SpecThreads == InitThreads /\ [][NextThreads]_vars

\* the flag of the k-th record is what the criteria give against the
\* records before it
FlagAgrees(log, k) ==
    log[k].converged =
        update_converged(criteria, SubSeq(log, 1, k - 1), log[k].iteration,
                         log[k].energy, log[k].residual_norm)

LogConsistent ==
    LET log == Deref(heap, _records)
    IN  \A k \in 1..Len(log) : FlagAgrees(log, k)

\* is_converged() says what the flags of the records say
FlagConsistent ==
    LET log == Deref(heap, _records)
    IN  is_converged <=> \E k \in 1..Len(log) : FlagAgrees(log, k) /\ log[k].converged

\* C27: as long as no update call has begun while another was in progress,
\* every logged record carries the flag that the criteria give against its
\* predecessor, and between calls is_converged() agrees with these flags.
C27_SerializedUpdatesConsistent ==
    ~overlapped => /\ LogConsistent
                   /\ ~InProgress => FlagConsistent

\* after two calls that overlapped, a record is logged as converged though
\* the criteria against its predecessor are not met, and is_converged()
\* says converged
C27_Witness ==
    /\ overlapped
    /\ ~InProgress
    /\ ~LogConsistent
    /\ ~FlagConsistent
    /\ is_converged

----------------------------------------------------------------------------
(* structures.py, convergence.py: monitors whose criteria carry a          *)
(* max_iterations, driven past it.                                         *)

\* the values of max_iterations tried
AdvisoryLimits == {NoLimit, Limit(0), Limit(1)}

InitAdvisory ==
    /\ criteria \in {ConvergenceCriteria(Two, Eighth, m) : m \in AdvisoryLimits}
    /\ heap = <<>>
    /\ _records = <<>>
    /\ _converged = FALSE
    /\ ret = 0
    /\ raised = FALSE
    /\ held = [has |-> FALSE, alias |-> FALSE, items |-> <<>>]
    /\ calls = <<>>
    /\ pristine = [log |-> <<>>, converged |-> FALSE]
    /\ NoScreening
    /\ NoAssembler
    /\ NoThreads

\* update calls with iteration labels up to 2
AdvisoryInputs ==
    {<<0, Nine, One>>, <<1, Zero, One>>, <<2, Zero, One>>, <<2, Nine, One>>}

UpdateAdvisory ==
    \E in \in AdvisoryInputs :
        /\ Len(calls) < MaxLen
        /\ update(in[1], in[2], in[3])

NextAdvisory == UpdateAdvisory

SpecAdvisory == InitAdvisory /\ [][NextAdvisory]_vars

\* a monitor constructed with the criteria crit and given the update calls
\* cs in turn: its records and its flag
RECURSIVE Replay(_, _)
Replay(crit, cs) ==
    IF cs = <<>> THEN [log |-> <<>>, converged |-> FALSE]
    ELSE LET before == Replay(crit, SubSeq(cs, 1, Len(cs) - 1))
             in == cs[Len(cs)]
             c == update_converged(crit, before.log, in[1], in[2], in[3])
         IN  IF update_raises(crit, before.log, in[1], in[2], in[3])
             THEN before
             ELSE [log |-> Append(before.log, ConvergenceRecord(in[1], in[2], in[3], c)),
                   converged |-> next_converged(before.converged, c)]

\* C30: after any sequence of update calls, a monitor whose criteria differ
\* only in max_iterations, given the same calls, has the same records and
\* the same is_converged(); and every call made is recorded, whatever
\* max_iterations is.
C30_MaxIterationsAdvisory ==
    /\ \A m \in AdvisoryLimits :
           LET other == Replay([criteria EXCEPT !.max_iterations = m], calls)
           IN  /\ other.log = Deref(heap, _records)
               /\ other.converged = is_converged
    /\ Len(_records) = Len(calls)

\* with max_iterations = 1, a third update, labelled 2, that is recorded
\* and is the first to converge
C30_Witness ==
    /\ criteria.max_iterations = Limit(1)
    /\ Len(_records) = 3
    /\ heap[_records[3]].iteration = 2
    /\ heap[_records[3]].converged
    /\ ~heap[_records[2]].converged
    /\ is_converged

====
